---- MODULE Spec2Model ----
(***************************************************************************)
(* icechat: the CRDT patch store (entity crate), the per-channel           *)
(* replication engine PatchSync (src/database/sync.rs) and its SQLite data *)
(* source (src/database/sqlite_sync.rs), as a state machine of two         *)
(* replicas joined by one channel per conversation.                        *)
(***************************************************************************)
EXTENDS Integers, Sequences, FiniteSets, TLC

\* ------------------------------------------------------------- bounds
\* local mutations (send_message, set_message_status, save_*) per behaviour
MaxWrites == 2
\* frames the transport holds per direction before send blocks
MaxWire == 1
\* session drops per behaviour
MaxDrops == 1
\* frames a faulty peer injects per behaviour
MaxInject == 2
\* largest generation a faulty peer puts in a stamp
MaxGen == 2
\* create_channel / remove_channel calls per behaviour
MaxChannelOps == 2

\* ------------------------------------------------------------- identities
Replicas == {"A", "B"}
Peer(r) == IF r = "A" THEN "B" ELSE "A"

AuthorAlice == 5
AuthorBob == 7
\* Database::author: the author derived from the replica's certificate
author(r) == IF r = "A" THEN AuthorAlice ELSE AuthorBob

\* Key::default(): the all-zero 32-byte key
ZeroKey == "zero"
NoKey == "none"
\* Database::patch_key: a replica's own public key
patch_key(r) == r
Keys == {"A", "B", ZeroKey}

Convs == {"C1", "C2"}
NoConv == "none"

\* message uuids (Uuid::new_v4 never repeats: they are handed out in order)
MsgIds == 1 .. (MaxWrites + 1)

\* ------------------------------------------------------------- patches
\* enum Patch, one record shape for all variants; unused fields hold defaults
Patch(kind, key, conv, msg, val, gen, auth, seq) ==
    [kind |-> kind, key |-> key, conv |-> conv, msg |-> msg, val |-> val,
     gen |-> gen, author |-> auth, seq |-> seq]

Contact(key, name, gen, auth) == Patch("Contact", key, NoConv, 0, name, gen, auth, 0)
Conversation(conv, title, gen, auth) == Patch("Conversation", NoKey, conv, 0, title, gen, auth, 0)
Member(key, conv, auth) == Patch("Member", key, conv, 0, 0, 0, auth, 0)
NewMessage(msg, from, conv, text, gen, auth, seq) ==
    Patch("NewMessage", from, conv, msg, text, gen, auth, seq)
MessageStatus(msg, conv, status, gen, auth) ==
    Patch("MessageStatus", NoKey, conv, msg, status, gen, auth, 0)

NoPatch == Patch("None", NoKey, NoConv, 0, 0, 0, 0, 0)

\* SyncData::conversation: None only for a Contact patch
SyncData_conversation(p) == IF p.kind = "Contact" THEN NoConv ELSE p.conv

\* SyncData::author: the author recorded in the patch's stamp
SyncData_author(p) == p.author

\* ------------------------------------------------------------- stamps
\* a Writable order that looks at the generation only
CrdtWritable_gt_by_generation(a, b) == a.gen > b.gen

\* derive(Ord) on CrdtWritable {generation, author}: lexicographic
CrdtWritable_gt(a, b) ==
    \/ a.gen > b.gen
    \/ a.gen = b.gen /\ a.author > b.author

\* a WritableSequence order under which an equal stamp counts as greater
CrdtWritableSequence_ge(a, b) ==
    \/ CrdtWritable_gt(a, b)
    \/ a.gen = b.gen /\ a.author = b.author /\ a.seq >= b.seq

\* derive(Ord) on CrdtWritableSequence {writable, sequence}
CrdtWritableSequence_gt(a, b) ==
    \/ CrdtWritable_gt(a, b)
    \/ a.gen = b.gen /\ a.author = b.author /\ a.seq > b.seq

\* an AddOnly order in which every incoming stamp wins
CrdtAddOnly_gt_any(a, b) == TRUE

\* an AddOnly order that compares the recorded authors
CrdtAddOnly_by_author(a, b) == a.author > b.author

\* derive(Ord) on the AddOnly stamp: a singleton order, nothing is greater
CrdtAddOnly_gt(a, b) == FALSE

crdt(p) == [gen |-> p.gen, author |-> p.author, seq |-> p.seq]

crdt_gt(kind, a, b) ==
    CASE kind = "NewMessage" -> CrdtWritableSequence_gt(a, b)
      [] kind = "Member" -> CrdtAddOnly_gt(a, b)
      [] OTHER -> CrdtWritable_gt(a, b)

\* ------------------------------------------------------------- tables
NoContact == [ex |-> FALSE, name |-> 0, gen |-> 0, author |-> 0]
NoConversation == [ex |-> FALSE, title |-> 0, gen |-> 0, author |-> 0]
NoMessage == [ex |-> FALSE, rowid |-> 0, from |-> NoKey, conv |-> NoConv, text |-> 0,
              attachment |-> 0, gen |-> 0, author |-> 0, seq |-> 0,
              status |-> 0, sgen |-> 0, sauthor |-> 0]
NoChannel == [ex |-> FALSE, id |-> 0, sync_index |-> 0]

\* the schema after Migrator::up: every table empty
EmptyDb ==
    [key |-> << >>,
     contact |-> [k \in Keys |-> NoContact],
     conversation |-> [c \in Convs |-> NoConversation],
     member |-> {},
     message |-> [m \in MsgIds |-> NoMessage], message_seq |-> 0,
     sync |-> {}, sync_seq |-> 0,
     channel |-> [c \in Convs |-> NoChannel], channel_seq |-> 0,
     initial_sync |-> {}, initial_seq |-> 0]

\* Key::get_or_create
Key_get_or_create(d, k) ==
    IF \E i \in 1 .. Len(d.key) : d.key[i] = k THEN d
    ELSE [d EXCEPT !.key = Append(@, k)]

\* a get_or_create whose placeholder carries a first generation
Contact_get_or_create_stamped(d, k) ==
    LET d1 == Key_get_or_create(d, k)
    IN IF d1.contact[k].ex THEN d1
       ELSE [d1 EXCEPT !.contact[k] = [ex |-> TRUE, name |-> 0, gen |-> 1, author |-> 0]]

\* Contact::get_or_create: a zero-stamped placeholder when the key is unknown
Contact_get_or_create(d, k) ==
    LET d1 == Key_get_or_create(d, k)
    IN IF d1.contact[k].ex THEN d1
       ELSE [d1 EXCEPT !.contact[k] = [ex |-> TRUE, name |-> 0, gen |-> 0, author |-> 0]]

\* Conversation::get_or_create
Conversation_get_or_create(d, c) ==
    IF d.conversation[c].ex THEN d
    ELSE [d EXCEPT !.conversation[c] = [ex |-> TRUE, title |-> 0, gen |-> 0, author |-> 0]]

Max(S) == CHOOSE x \in S : \A y \in S : y <= x
Min(S) == CHOOSE x \in S : \A y \in S : x <= y

\* ------------------------------------------------------------- CrdtTransaction
\* CrdtTransaction::existent, the reads it does through get_or_create included
existent_db(d, p) ==
    CASE p.kind = "Contact" -> Key_get_or_create(d, p.key)
      [] p.kind = "Member" -> Conversation_get_or_create(Contact_get_or_create(d, p.key), p.conv)
      [] OTHER -> d

\* CrdtTransaction::existent: the stored row's stamp, if a row has p's logical id
existent(d, p) ==
    CASE p.kind = "Contact" ->
           [ex |-> d.contact[p.key].ex, gen |-> d.contact[p.key].gen,
            author |-> d.contact[p.key].author, seq |-> 0]
      [] p.kind = "Conversation" ->
           [ex |-> d.conversation[p.conv].ex, gen |-> d.conversation[p.conv].gen,
            author |-> d.conversation[p.conv].author, seq |-> 0]
      [] p.kind = "Member" ->
           IF \E m \in d.member : m.key = p.key /\ m.conv = p.conv
           THEN LET m == CHOOSE m \in d.member : m.key = p.key /\ m.conv = p.conv
                IN [ex |-> TRUE, gen |-> 0, author |-> m.author, seq |-> 0]
           ELSE [ex |-> FALSE, gen |-> 0, author |-> 0, seq |-> 0]
      [] p.kind = "NewMessage" ->
           [ex |-> d.message[p.msg].ex, gen |-> d.message[p.msg].gen,
            author |-> d.message[p.msg].author, seq |-> d.message[p.msg].seq]
      [] OTHER ->
           [ex |-> d.message[p.msg].ex, gen |-> d.message[p.msg].sgen,
            author |-> d.message[p.msg].sauthor, seq |-> 0]

\* CrdtTransaction<Contact>::save
save_Contact(d, p, e) ==
    LET d1 == IF e.ex THEN d ELSE Key_get_or_create(d, p.key)
    IN [d1 EXCEPT !.contact[p.key] =
            [ex |-> TRUE, name |-> p.val, gen |-> p.gen, author |-> p.author]]

\* CrdtTransaction<Conversation>::save
save_Conversation(d, p, e) ==
    [d EXCEPT !.conversation[p.conv] =
        [ex |-> TRUE, title |-> p.val, gen |-> p.gen, author |-> p.author]]

\* CrdtTransaction<Member>::save: inserts only when no row exists
save_Member(d, p, e) ==
    IF e.ex THEN d
    ELSE LET d1 == Conversation_get_or_create(Contact_get_or_create(d, p.key), p.conv)
         IN [d1 EXCEPT !.member = @ \cup {[key |-> p.key, conv |-> p.conv, author |-> p.author]}]

\* CrdtTransaction<NewMessage>::save
save_NewMessage(d, p, e) ==
    LET d1 == Conversation_get_or_create(Contact_get_or_create(d, p.key), p.conv)
        old == d1.message[p.msg]
    IN IF e.ex
       THEN [d1 EXCEPT !.message[p.msg] =
                [old EXCEPT !.from = p.key, !.conv = p.conv, !.text = p.val,
                            !.attachment = 0, !.gen = p.gen, !.author = p.author,
                            !.seq = p.seq]]
       ELSE [d1 EXCEPT !.message_seq = @ + 1, !.message[p.msg] =
                [ex |-> TRUE, rowid |-> d1.message_seq + 1,
                 from |-> p.key, conv |-> p.conv, text |-> p.val,
                 attachment |-> 0, gen |-> p.gen, author |-> p.author, seq |-> p.seq,
                 status |-> 0, sgen |-> 0, sauthor |-> 0]]

\* CrdtTransaction<MessageStatus>::save
save_MessageStatus(d, p, e) ==
    LET d1 == Conversation_get_or_create(d, p.conv)
    IN IF e.ex
       THEN [d1 EXCEPT !.message[p.msg] =
                [@ EXCEPT !.status = p.val, !.conv = p.conv,
                          !.sgen = p.gen, !.sauthor = p.author]]
       ELSE LET d2 == Contact_get_or_create(d1, ZeroKey)
            IN [d2 EXCEPT !.message_seq = @ + 1, !.message[p.msg] =
                   [ex |-> TRUE, rowid |-> d2.message_seq + 1,
                    from |-> ZeroKey, conv |-> p.conv, text |-> 0,
                    attachment |-> 0, gen |-> 0, author |-> 0, seq |-> 0,
                    status |-> p.val, sgen |-> p.gen, sauthor |-> p.author]]

\* CrdtTransaction::save, by patch variant
save(d, p, e) ==
    CASE p.kind = "Contact" -> save_Contact(d, p, e)
      [] p.kind = "Conversation" -> save_Conversation(d, p, e)
      [] p.kind = "Member" -> save_Member(d, p, e)
      [] p.kind = "NewMessage" -> save_NewMessage(d, p, e)
      [] OTHER -> save_MessageStatus(d, p, e)

\* merge under which the smaller author wins a tie on generation
merge_smaller_author_wins(p, e) ==
    \/ ~e.ex
    \/ IF p.kind = "Conversation"
       THEN p.gen > e.gen \/ (p.gen = e.gen /\ p.author < e.author)
       ELSE crdt_gt(p.kind, crdt(p), e)

\* merge that accepts only when no row is stored
merge_if_absent(p, e) == ~e.ex

\* merge that accepts any stamp other than the stored one
merge_unless_same_stamp(p, e) ==
    ~e.ex \/ p.gen # e.gen \/ p.author # e.author \/ p.seq # e.seq

\* a kernel that keeps a message status whose stamp equals the stored one
merge_keeps_equal_status(p, e) ==
    \/ ~e.ex
    \/ crdt_gt(p.kind, crdt(p), e)
    \/ p.kind = "MessageStatus" /\ p.gen = e.gen /\ p.author = e.author

\* CrdtInstance::merge (the kernel): keep p iff no row or a strictly greater stamp
CrdtInstance_merge(p, e) == ~e.ex \/ crdt_gt(p.kind, crdt(p), e)

\* CrdtTransaction::merge / Patch::merge: [db, kept]
merge(d, p) ==
    LET d1 == existent_db(d, p)
        e == existent(d1, p)
    IN IF CrdtInstance_merge(p, e)
       THEN [db |-> save(d1, p, e), kept |-> TRUE]
       ELSE [db |-> d1, kept |-> FALSE]

\* i32::MAX and i32::MIN, the range of generation
MaxI32 == 2147483647
MinI32 == (-MaxI32) - 1

\* self.generation + 1 on an i32: wraps in a build without overflow checks
generation_plus_one(g) == IF g = MaxI32 THEN MinI32 ELSE g + 1

\* CrdtOrd::next on a Writable stamp (the sequence of a WritableSequence is kept)
next_crdt(e, auth) == [gen |-> generation_plus_one(e.gen), author |-> auth, seq |-> e.seq]

\* CrdtOrd::next on an AddOnly stamp: the stamp itself
CrdtAddOnly_next(e, auth) == e

\* CrdtOrd::next, by patch variant
CrdtOrd_next(kind, e, auth) ==
    IF kind = "Member" THEN CrdtAddOnly_next(e, auth) ELSE next_crdt(e, auth)

\* derive(PartialEq, Eq) on the stamp types; the AddOnly order has one element
crdt_eq(kind, a, b) ==
    CASE kind = "NewMessage" -> a.gen = b.gen /\ a.author = b.author /\ a.seq = b.seq
      [] kind = "Member" -> TRUE
      [] OTHER -> a.gen = b.gen /\ a.author = b.author

\* derive(PartialOrd, Ord): a < b
crdt_lt(kind, a, b) == crdt_gt(kind, b, a)

\* CrdtWritableTransaction::add: stamp = existing.next(author), then save
add(d, auth, p) ==
    LET d1 == existent_db(d, p)
        e == existent(d1, p)
        c == next_crdt(IF e.ex THEN e ELSE [gen |-> 0, author |-> 0, seq |-> 0], auth)
        q == [p EXCEPT !.gen = c.gen, !.author = c.author]
    IN [db |-> save(d1, q, e), patch |-> q]

\* CrdtWritableSequenceTransaction::last: the largest sequence stored in the group
last(d, conv) ==
    LET S == {d.message[m].seq : m \in {x \in MsgIds : d.message[x].ex /\ d.message[x].conv = conv}}
    IN IF S = {} THEN 0 ELSE Max(S)

\* last.sequence + 1 on an i32: wraps in a build without overflow checks
sequence_plus_one(n) == IF n = MaxI32 THEN MinI32 ELSE n + 1

\* CrdtWritableSequenceTransaction::push
push(d, auth, p) ==
    LET e == existent(d, p)
        c == next_crdt(IF e.ex THEN e ELSE [gen |-> 0, author |-> 0, seq |-> 0], auth)
        d1 == Conversation_get_or_create(d, p.conv)
        q == [p EXCEPT !.gen = c.gen, !.author = c.author, !.seq = sequence_plus_one(last(d1, p.conv))]
    IN [db |-> save(d1, q, e), patch |-> q]

\* ------------------------------------------------------------- Database
\* a sync table whose id is a plain rowid: the largest id stored plus one
save_patch_for_sync_max_rowid(d, p) ==
    [d EXCEPT !.sync_seq = @ + 1,
              !.sync = @ \cup {[id |-> (IF d.sync = {} THEN 0
                                        ELSE Max({x.id : x \in d.sync})) + 1,
                                payload |-> p]}]

\* Database::save_patch_for_sync / SyncDataSource::save: append to the sync log
\* (id is AUTOINCREMENT: sync_seq is the largest id the table ever handed out)
save_patch_for_sync(d, p) ==
    [d EXCEPT !.sync_seq = @ + 1,
              !.sync = @ \cup {[id |-> d.sync_seq + 1, payload |-> p]}]

\* Database::set_new_patch
set_new_patch(d, r, p) ==
    LET w == add(d, author(r), p) IN save_patch_for_sync(w.db, w.patch)

\* Database::push_new_patch
push_new_patch(d, r, p) ==
    LET w == push(d, author(r), p) IN save_patch_for_sync(w.db, w.patch)

\* Database::merge_new_patch
merge_new_patch(d, p) ==
    LET w == merge(d, p) IN IF w.kept THEN save_patch_for_sync(w.db, p) ELSE w.db

\* Database::first_time: the local identity and its placeholder contact
first_time(r) == Contact_get_or_create(EmptyDb, patch_key(r))

\* Database::create_conversation: stamped by set, the creator's member row inserted
create_conversation(d, r, c) ==
    LET w == add(d, author(r), Conversation(c, 0, 0, 0))
    IN [w.db EXCEPT !.member = @ \cup {[key |-> patch_key(r), conv |-> c, author |-> author(r)]}]

\* Database::join_conversation: a zero-stamped row unless the conversation is known
join_conversation(d, c) ==
    IF d.conversation[c].ex THEN d
    ELSE [d EXCEPT !.conversation[c] = [ex |-> TRUE, title |-> 0, gen |-> 0, author |-> 0]]

\* Database::send_message
send_message(d, r, c, id, text) ==
    push_new_patch(d, r, NewMessage(id, patch_key(r), c, text, 0, 0, 0))

\* Database::set_message_status (message.conversation is read from the stored row)
set_message_status(d, r, m, status) ==
    set_new_patch(d, r, MessageStatus(m, d.message[m].conv, status, 0, 0))

\* Database::save_contact
save_contact(d, r, k, name) == set_new_patch(d, r, Contact(k, name, 0, 0))

\* Database::save_conversation
save_conversation(d, r, c, title) == set_new_patch(d, r, Conversation(c, title, 0, 0))

\* Database::current_sync_index: the largest id in the sync table, 0 when empty
current_sync_index(d) == IF d.sync = {} THEN 0 ELSE Max({s.id : s \in d.sync})

\* Database::save_initial_patch, for a list of patches in order
RECURSIVE save_initial_patch(_, _, _)
save_initial_patch(d, ch, ps) ==
    IF ps = << >> THEN d
    ELSE save_initial_patch(
            [d EXCEPT !.initial_seq = @ + 1,
                      !.initial_sync = @ \cup {[id |-> d.initial_seq + 1, channel |-> ch,
                                                payload |-> Head(ps)]}],
            ch, Tail(ps))

\* the rows of a table ({[rank, row]}) as a list in rowid order
RECURSIVE SeqOfRows(_)
SeqOfRows(S) ==
    IF S = {} THEN << >>
    ELSE LET x == CHOOSE x \in S : \A y \in S : x.rank <= y.rank
         IN <<x.row>> \o SeqOfRows(S \ {x})

\* a snapshot that queues each MessageStatus ahead of its NewMessage
RECURSIVE message_patches_status_first(_, _, _)
message_patches_status_first(d, c, ms) ==
    IF ms = << >> THEN << >>
    ELSE LET row == d.message[Head(ms)]
         IN << MessageStatus(Head(ms), c, row.status, row.sgen, row.sauthor),
               NewMessage(Head(ms), row.from, c, row.text, row.gen, row.author, row.seq) >>
            \o message_patches_status_first(d, c, Tail(ms))

\* the patches of the stored messages ms, each NewMessage followed by its MessageStatus
RECURSIVE message_patches(_, _, _)
message_patches(d, c, ms) ==
    IF ms = << >> THEN << >>
    ELSE LET row == d.message[Head(ms)]
         IN << NewMessage(Head(ms), row.from, c, row.text, row.gen, row.author, row.seq),
               MessageStatus(Head(ms), c, row.status, row.sgen, row.sauthor) >>
            \o message_patches(d, c, Tail(ms))

\* Database::initial_sync: the snapshot of a conversation, in the order it is queued
initial_sync_patches(d, c) ==
    LET keyrank(k) == CHOOSE i \in 1 .. Len(d.key) : d.key[i] = k
        contacts == SeqOfRows({[rank |-> keyrank(k), row |-> k] : k \in {x \in Keys : d.contact[x].ex}})
        members == SeqOfRows({[rank |-> keyrank(m.key), row |-> m] : m \in {x \in d.member : x.conv = c}})
        messages == SeqOfRows({[rank |-> d.message[m].rowid, row |-> m] :
                                 m \in {x \in MsgIds : d.message[x].ex /\ d.message[x].conv = c}})
        cv == d.conversation[c]
    IN << Conversation(c, cv.title, cv.gen, cv.author) >>
       \o [i \in 1 .. Len(contacts) |->
             Contact(contacts[i], d.contact[contacts[i]].name,
                     d.contact[contacts[i]].gen, d.contact[contacts[i]].author)]
       \o [i \in 1 .. Len(members) |-> Member(members[i].key, c, members[i].author)]
       \o message_patches(d, c, messages)

\* Database::create_channel
create_channel(d, r, c) ==
    IF d.channel[c].ex THEN d
    ELSE LET d1 == Contact_get_or_create(d, patch_key(Peer(r)))
             d2 == merge_new_patch(d1, Member(patch_key(Peer(r)), c, author(r)))
             id == d2.channel_seq + 1
             d3 == [d2 EXCEPT !.channel_seq = id,
                              !.channel[c] = [ex |-> TRUE, id |-> id,
                                              sync_index |-> current_sync_index(d2)]]
         IN save_initial_patch(d3, id, initial_sync_patches(d3, c))

\* a remove_channel on a connection that does not enforce foreign keys
remove_channel_without_cascade(d, r, c) ==
    IF ~d.channel[c].ex THEN d
    ELSE [Contact_get_or_create(d, patch_key(Peer(r))) EXCEPT !.channel[c] = NoChannel]

\* Database::remove_channel: the initial_sync rows go with the channel (ON DELETE CASCADE)
remove_channel(d, r, c) ==
    IF ~d.channel[c].ex THEN d
    ELSE LET d1 == Contact_get_or_create(d, patch_key(Peer(r)))
         IN [d1 EXCEPT !.channel[c] = NoChannel,
                       !.initial_sync = {i \in @ : i.channel # d.channel[c].id}]

\* ------------------------------------------------------------- SyncDataSource
\* enum SyncDataId
Global(n) == [tag |-> "Global", n |-> n]
InitialSync(n) == [tag |-> "InitialSync", n |-> n]

\* Option<SyncData>::None
NoData == [found |-> FALSE, id |-> Global(0), payload |-> NoPatch]

\* channel::Entity::find_by_id
find_channel(d, ch) == {c \in Convs : d.channel[c].ex /\ d.channel[c].id = ch}

\* a next that looks at the sync log before the channel's initial_sync rows
SyncDataSource_next_global_first(d, ch, minimum) ==
    LET init == {i \in d.initial_sync : i.channel = ch /\ i.id > minimum[1]}
        cs == find_channel(d, ch)
        rows == {x \in d.sync : \E c \in cs : x.id > d.channel[c].sync_index}
        above == {x \in rows : x.id > minimum[2]}
    IN IF above # {}
       THEN LET x == CHOOSE x \in above : \A y \in above : x.id <= y.id
            IN [found |-> TRUE, id |-> Global(x.id), payload |-> x.payload]
       ELSE IF init = {} THEN NoData
       ELSE LET i == CHOOSE i \in init : \A j \in init : i.id <= j.id
            IN [found |-> TRUE, id |-> InitialSync(i.id), payload |-> i.payload]

\* a next that returns the newest sync row above the cursors
SyncDataSource_next_newest(d, ch, minimum) ==
    LET init == {i \in d.initial_sync : i.channel = ch /\ i.id > minimum[1]}
        cs == find_channel(d, ch)
    IN IF init # {}
       THEN LET i == CHOOSE i \in init : \A j \in init : i.id <= j.id
            IN [found |-> TRUE, id |-> InitialSync(i.id), payload |-> i.payload]
       ELSE IF cs = {} THEN NoData
       ELSE LET c == CHOOSE c \in cs : TRUE
                rows == {x \in d.sync : x.id > d.channel[c].sync_index /\ x.id > minimum[2]}
            IN IF rows = {} THEN NoData
               ELSE LET x == CHOOSE x \in rows : \A y \in rows : x.id >= y.id
                    IN [found |-> TRUE, id |-> Global(x.id), payload |-> x.payload]

\* SyncDataSource::next: the smallest pending initial_sync row of the channel above
\* min_initial, else the first sync row above channel.sync_index and min_global
SyncDataSource_next(d, ch, minimum) ==
    LET init == {i \in d.initial_sync : i.channel = ch /\ i.id > minimum[1]}
        cs == find_channel(d, ch)
    IN IF init # {}
       THEN LET i == CHOOSE i \in init : \A j \in init : i.id <= j.id
            IN [found |-> TRUE, id |-> InitialSync(i.id), payload |-> i.payload]
       ELSE IF cs = {} THEN NoData
       ELSE LET c == CHOOSE c \in cs : TRUE
                rows == {x \in d.sync : x.id > d.channel[c].sync_index /\ x.id > minimum[2]}
            IN IF rows = {} THEN NoData
               ELSE LET x == CHOOSE x \in rows : \A y \in rows : x.id <= y.id
                    IN [found |-> TRUE, id |-> Global(x.id), payload |-> x.payload]

\* garbage collection up to the most advanced channel
remove_patches_up_to_max(d) ==
    LET cs == {c \in Convs : d.channel[c].ex}
    IN IF cs = {} THEN d
       ELSE LET done_sync == Max({d.channel[c].sync_index : c \in cs})
            IN [d EXCEPT !.sync = {x \in @ : x.id > done_sync}]

\* remove_old_patches: DELETE FROM sync WHERE id <= the smallest sync_index
remove_old_patches(d) ==
    LET cs == {c \in Convs : d.channel[c].ex}
    IN IF cs = {} THEN d
       ELSE LET done_sync == Min({d.channel[c].sync_index : c \in cs})
            IN [d EXCEPT !.sync = {x \in @ : x.id > done_sync}]

\* an ack that stores whatever Global id it is given
ack_stores_any_index(d, ch, id) ==
    IF id.tag = "Global"
    THEN LET cs == find_channel(d, ch)
         IN IF cs = {} THEN d
            ELSE LET c == CHOOSE c \in cs : TRUE
                 IN remove_old_patches([d EXCEPT !.channel[c].sync_index = id.n])
    ELSE LET rows == {i \in d.initial_sync : i.id = id.n}
         IN IF rows = {} THEN d
            ELSE IF (CHOOSE i \in rows : TRUE).channel # ch THEN d
            ELSE [d EXCEPT !.initial_sync = @ \ rows]

\* an ack that deletes the initial_sync row of the id whatever its channel
ack_deletes_any_channel(d, ch, id) ==
    IF id.tag = "Global"
    THEN LET cs == find_channel(d, ch)
         IN IF cs = {} THEN d
            ELSE LET c == CHOOSE c \in cs : TRUE
                 IN IF d.channel[c].sync_index >= id.n THEN d
                    ELSE remove_old_patches([d EXCEPT !.channel[c].sync_index = id.n])
    ELSE [d EXCEPT !.initial_sync = {i \in @ : i.id # id.n}]

\* SyncDataSource::ack
SyncDataSource_ack(d, ch, id) ==
    IF id.tag = "Global"
    THEN LET cs == find_channel(d, ch)
         IN IF cs = {} THEN d
            ELSE LET c == CHOOSE c \in cs : TRUE
                 IN IF d.channel[c].sync_index >= id.n THEN d
                    ELSE remove_old_patches([d EXCEPT !.channel[c].sync_index = id.n])
    ELSE LET rows == {i \in d.initial_sync : i.id = id.n}
         IN IF rows = {} THEN d
            ELSE IF (CHOOSE i \in rows : TRUE).channel # ch THEN d
            ELSE [d EXCEPT !.initial_sync = @ \ rows]

\* ------------------------------------------------------------- PatchSync
\* enum PatchSyncMessage, and None for "tx returned nothing"
Data(id, payload) == [type |-> "Data", id |-> id, payload |-> payload]
Ack(id) == [type |-> "Ack", id |-> id, payload |-> NoPatch]
None == [type |-> "None", id |-> Global(0), payload |-> NoPatch]

\* PatchSync::new (Database::start_sync)
PatchSync_new(ctx, auth, conv) ==
    [author |-> auth, conversation |-> conv, ctx |-> ctx, tx |-> << >>, minimum |-> <<0, 0>>]

\* a conversation gate that lets every row through
skips_no_conversation(s, p) == FALSE

\* tx: skip_by_conversation
skip_by_conversation(s, p) ==
    SyncData_conversation(p) # NoConv /\ SyncData_conversation(p) # s.conversation

\* tx that skips by conversation only
skips_by_conversation_only(s, p) == skip_by_conversation(s, p)

\* tx: the row is acked locally instead of being sent
tx_skips(s, p) == SyncData_author(p) = s.author \/ skip_by_conversation(s, p)

\* a tx that asks the store first and turns to its queue when the store has
\* nothing to send
PatchSync_tx_store_first(d, s, skipped) ==
    LET next == SyncDataSource_next(d, s.ctx, s.minimum)
    IN IF next.found /\ ~tx_skips(s, next.payload)
       THEN [db |-> d,
             sync |-> [s EXCEPT !.minimum = IF next.id.tag = "Global"
                                            THEN <<@[1], next.id.n>>
                                            ELSE <<next.id.n, @[2]>>],
             out |-> Data(next.id, next.payload), skipped |-> skipped]
       ELSE IF s.tx # << >>
       THEN [db |-> d, sync |-> [s EXCEPT !.tx = Tail(@)], out |-> Head(s.tx),
             skipped |-> skipped]
       ELSE [db |-> d, sync |-> s, out |-> None, skipped |-> skipped]

\* a tx that returns nothing after acking a skipped row locally
PatchSync_tx_stops_at_skip(d, s, skipped) ==
    IF s.tx # << >>
    THEN [db |-> d, sync |-> [s EXCEPT !.tx = Tail(@)], out |-> Head(s.tx), skipped |-> skipped]
    ELSE LET next == SyncDataSource_next(d, s.ctx, s.minimum)
         IN IF ~next.found
            THEN [db |-> d, sync |-> s, out |-> None, skipped |-> skipped]
            ELSE IF tx_skips(s, next.payload)
            THEN [db |-> SyncDataSource_ack(d, s.ctx, next.id), sync |-> s, out |-> None,
                  skipped |-> skipped \cup {[id |-> next.id, payload |-> next.payload]}]
            ELSE [db |-> d,
                  sync |-> [s EXCEPT !.minimum = IF next.id.tag = "Global"
                                                 THEN <<@[1], next.id.n>>
                                                 ELSE <<next.id.n, @[2]>>],
                  out |-> Data(next.id, next.payload), skipped |-> skipped]

\* PatchSync::tx: [db, sync, out, skipped]
RECURSIVE PatchSync_tx(_, _, _)
PatchSync_tx(d, s, skipped) ==
    IF s.tx # << >>
    THEN [db |-> d, sync |-> [s EXCEPT !.tx = Tail(@)], out |-> Head(s.tx), skipped |-> skipped]
    ELSE CHOOSE res \in
           {IF ~next.found
            THEN [db |-> d, sync |-> s, out |-> None, skipped |-> skipped]
            ELSE IF tx_skips(s, next.payload)
            THEN CHOOSE rest \in
                   {PatchSync_tx(acked, s,
                                 skipped \cup {[id |-> next.id, payload |-> next.payload]}) :
                      acked \in {SyncDataSource_ack(d, s.ctx, next.id)}} : TRUE
            ELSE [db |-> d,
                  sync |-> [s EXCEPT !.minimum = IF next.id.tag = "Global"
                                                 THEN <<@[1], next.id.n>>
                                                 ELSE <<next.id.n, @[2]>>],
                  out |-> Data(next.id, next.payload), skipped |-> skipped] :
              next \in {SyncDataSource_next(d, s.ctx, s.minimum)}} : TRUE

\* an inbound gate that lets every patch through
any_conversation_valid(s, p) == TRUE

\* rx: valid_conversation
valid_conversation(s, p) ==
    SyncData_conversation(p) = NoConv \/ SyncData_conversation(p) = s.conversation

\* an rx that acks only the Data its conversation gate lets through
PatchSync_rx_acks_merged(d, s, message) ==
    IF message.type = "Data"
    THEN LET valid == valid_conversation(s, message.payload)
             w == IF valid THEN merge(d, message.payload) ELSE [db |-> d, kept |-> FALSE]
             d1 == IF w.kept THEN save_patch_for_sync(w.db, message.payload) ELSE w.db
         IN [db |-> d1,
             sync |-> IF valid THEN [s EXCEPT !.tx = Append(@, Ack(message.id))] ELSE s,
             merged |-> valid, kept |-> w.kept]
    ELSE [db |-> SyncDataSource_ack(d, s.ctx, message.id), sync |-> s,
          merged |-> FALSE, kept |-> FALSE]

\* an rx that saves every message status its gate lets through, kept or not
PatchSync_rx_saves_statuses(d, s, message) ==
    IF message.type = "Data"
    THEN LET valid == valid_conversation(s, message.payload)
             w == IF valid THEN merge(d, message.payload) ELSE [db |-> d, kept |-> FALSE]
             d1 == IF w.kept \/ (valid /\ message.payload.kind = "MessageStatus")
                   THEN save_patch_for_sync(w.db, message.payload) ELSE w.db
         IN [db |-> d1, sync |-> [s EXCEPT !.tx = Append(@, Ack(message.id))],
             merged |-> valid, kept |-> w.kept]
    ELSE [db |-> SyncDataSource_ack(d, s.ctx, message.id), sync |-> s,
          merged |-> FALSE, kept |-> FALSE]

\* PatchSync::rx: [db, sync, merged, kept]
PatchSync_rx(d, s, message) ==
    IF message.type = "Data"
    THEN LET valid == valid_conversation(s, message.payload)
             w == IF valid THEN merge(d, message.payload) ELSE [db |-> d, kept |-> FALSE]
             d1 == IF w.kept THEN save_patch_for_sync(w.db, message.payload) ELSE w.db
         IN [db |-> d1, sync |-> [s EXCEPT !.tx = Append(@, Ack(message.id))],
             merged |-> valid, kept |-> w.kept]
    ELSE [db |-> SyncDataSource_ack(d, s.ctx, message.id), sync |-> s,
          merged |-> FALSE, kept |-> FALSE]

\* ------------------------------------------------------------- state
VARIABLES
    db,        \* db[r]: replica r's SQLite database
    sync,      \* sync[r][c]: the PatchSync of r's session for conversation c
    link,      \* link[c]: the sessions for c are Connected
    wire,      \* wire[r][c]: frames sent by r on c, not yet read by the peer
    uuid,      \* message uuids handed out so far
    writes,    \* local mutations so far
    drops,     \* session drops so far
    injected,  \* frames injected by a faulty peer so far
    chanops,   \* create_channel / remove_channel calls so far
    unacked,   \* unacked[r][c]: Global ids r emitted as Data on c with no Ack processed yet
    state,     \* state[r][c]: Channel.state of r's channel for conversation c
    pipe,      \* pipe[r][c]: the PipeSync of that channel: pending, and the pipe's rx_closed
    pc,        \* pc[r]: where r's hub stands in its cycle
    fragmentable, \* a Fragmentable over its transport, and the reader's loop on it
    step       \* the step just taken

vars == <<db, sync, link, wire, uuid, writes, drops, injected, chanops, unacked,
          state, pipe, pc, fragmentable, step>>

\* Alice marks messages Delivered, Bob marks them Read
Mark(r) == IF r = "A" THEN 1 ELSE 2

Event(op, r, c, frame, skipped, merged, kept) ==
    [op |-> op, r |-> r, c |-> c, frame |-> frame, skipped |-> skipped,
     merged |-> merged, kept |-> kept]

\* a step other than tx and rx
Quiet == Event("-", "A", NoConv, None, {}, FALSE, FALSE)

Idle(c) == PatchSync_new(0, 0, c)

\* PipeSyncPending, and the pending field of a new PipeSync (None)
Pending(kind, frame) == [kind |-> kind, frame |-> frame]

NoPending == Pending("None", None)

\* PipeSync::new: nothing pending, the pipe's receive side open
PipeSync_new == [pending |-> NoPending, rx_closed |-> FALSE]

\* the databases right after pairing: Alice created C1 and C2 and added Bob to
\* C1; Bob joined C1 and added Alice
Paired ==
    [r \in Replicas |->
       IF r = "A"
       THEN create_channel(
                create_conversation(
                    create_conversation(first_time("A"), "A", "C1"), "A", "C2"),
                "A", "C1")
       ELSE create_channel(join_conversation(first_time("B"), "C1"), "B", "C1")]

\* one frame of a session run to completion: r's tx, and the peer's rx of the
\* frame it returned
Handoff(d, s, r, c) ==
    LET t == PatchSync_tx(d[r], s[r], {})
        q == Peer(r)
        u == PatchSync_rx(d[q], s[q], t.out)
    IN IF t.out = None
       THEN [db |-> [d EXCEPT ![r] = t.db], sync |-> [s EXCEPT ![r] = t.sync],
             sent |-> t.skipped # {}]
       ELSE [db |-> [d EXCEPT ![r] = t.db, ![q] = u.db],
             sync |-> [s EXCEPT ![r] = t.sync, ![q] = u.sync],
             sent |-> TRUE]

\* a session for c that runs until neither side has anything left to send
RECURSIVE Session(_, _, _)
Session(d, s, c) ==
    LET a == Handoff(d, s, "A", c)
        b == Handoff(a.db, a.sync, "B", c)
    IN IF a.sent \/ b.sent THEN Session(b.db, b.sync, c) ELSE d

\* Alice and Bob paired, completed their first session for C1 and went offline
Drained ==
    Session(Paired, [r \in Replicas |->
                       PatchSync_new(Paired[r].channel["C1"].id, author(Peer(r)), "C1")],
            "C1")

\* every channel Offline, nothing in flight, nothing done yet
Offline ==
    /\ sync = [r \in Replicas |-> [c \in Convs |-> Idle(c)]]
    /\ link = [c \in Convs |-> FALSE]
    /\ wire = [r \in Replicas |-> [c \in Convs |-> << >>]]
    /\ uuid = 0
    /\ writes = 0
    /\ drops = 0
    /\ injected = 0
    /\ chanops = 0
    /\ unacked = [r \in Replicas |-> [c \in Convs |-> {}]]
    /\ state = [r \in Replicas |-> [c \in Convs |-> "Offline"]]
    /\ pipe = [r \in Replicas |-> [c \in Convs |-> PipeSync_new]]
    /\ pc = [r \in Replicas |-> "pre_wait"]

Settled == db = Drained /\ Offline

\* Fragmentable::new over an empty transport, with nothing to send
Fragmentable_new(todo) ==
    [todo |-> todo, given |-> << >>, underlying |-> << >>, sent |-> << >>,
     rx_buf |-> << >>, value |-> "-", out |-> << >>]

Unframed == fragmentable = Fragmentable_new(<< >>)

\* the state after construction: the store at rest, no step taken
Init == Settled /\ Unframed /\ step = Quiet

\* ------------------------------------------------------------- local mutations
SendMessage(r, c) ==
    /\ writes < MaxWrites
    /\ uuid + 1 \in MsgIds
    /\ db[r].conversation[c].ex
    /\ db' = [db EXCEPT ![r] = send_message(@, r, c, uuid + 1, 1)]
    /\ uuid' = uuid + 1
    /\ writes' = writes + 1
    /\ step' = Quiet
    /\ UNCHANGED <<sync, link, wire, drops, injected, chanops, unacked,
                   state, pipe, pc, fragmentable>>

SetMessageStatus(r, m, st) ==
    /\ writes < MaxWrites
    /\ db[r].message[m].ex
    /\ db' = [db EXCEPT ![r] = set_message_status(@, r, m, st)]
    /\ writes' = writes + 1
    /\ step' = Quiet
    /\ UNCHANGED <<sync, link, wire, uuid, drops, injected, chanops, unacked,
                   state, pipe, pc, fragmentable>>

SaveContact(r, k) ==
    /\ writes < MaxWrites
    /\ db[r].contact[k].ex
    /\ db' = [db EXCEPT ![r] = save_contact(@, r, k, author(r))]
    /\ writes' = writes + 1
    /\ step' = Quiet
    /\ UNCHANGED <<sync, link, wire, uuid, drops, injected, chanops, unacked,
                   state, pipe, pc, fragmentable>>

SaveConversation(r, c) ==
    /\ writes < MaxWrites
    /\ db[r].conversation[c].ex
    /\ db' = [db EXCEPT ![r] = save_conversation(@, r, c, author(r))]
    /\ writes' = writes + 1
    /\ step' = Quiet
    /\ UNCHANGED <<sync, link, wire, uuid, drops, injected, chanops, unacked,
                   state, pipe, pc, fragmentable>>

\* ------------------------------------------------------------- sessions
\* the hub connects an Offline channel: every replica in R gets a fresh
\* PatchSync (start_sync)
Start(R, c) ==
    /\ ~link[c]
    /\ \A r \in R : db[r].channel[c].ex
    /\ link' = [link EXCEPT ![c] = TRUE]
    /\ state' = [r \in Replicas |->
                   IF r \in R THEN [state[r] EXCEPT ![c] = "Connected"]
                   ELSE state[r]]
    /\ sync' = [r \in Replicas |->
                  IF r \in R
                  THEN [sync[r] EXCEPT ![c] =
                            PatchSync_new(db[r].channel[c].id, author(Peer(r)), c)]
                  ELSE sync[r]]
    /\ step' = Quiet
    /\ UNCHANGED <<db, wire, uuid, writes, drops, injected, chanops, unacked,
                   pipe, pc, fragmentable>>

Connect(c) == Start(Replicas, c)

\* the transport fails: both sessions fall to Offline, frames in flight are lost
Drop(c) ==
    /\ link[c]
    /\ drops < MaxDrops
    /\ link' = [link EXCEPT ![c] = FALSE]
    /\ state' = [r \in Replicas |-> [state[r] EXCEPT ![c] = "Offline"]]
    /\ sync' = [r \in Replicas |-> [sync[r] EXCEPT ![c] = Idle(c)]]
    /\ wire' = [r \in Replicas |-> [wire[r] EXCEPT ![c] = << >>]]
    /\ drops' = drops + 1
    /\ step' = Quiet
    /\ UNCHANGED <<db, uuid, writes, injected, chanops, unacked, pipe, pc,
                   fragmentable>>

\* PipeSync::pre_wait calls tx; the frame, if any, is sent
Tx(r, c) ==
    /\ link[c]
    /\ \E res \in {PatchSync_tx(db[r], sync[r][c], {})} :
          /\ res.out # None \/ res.skipped # {}
          /\ res.out # None => Len(wire[r][c]) < MaxWire
          /\ db' = [db EXCEPT ![r] = res.db]
          /\ sync' = [sync EXCEPT ![r][c] = res.sync]
          /\ wire' = IF res.out = None THEN wire
                     ELSE [wire EXCEPT ![r][c] = Append(@, res.out)]
          /\ unacked' = IF res.out.type = "Data" /\ res.out.id.tag = "Global"
                        THEN [unacked EXCEPT ![r][c] = @ \cup {res.out.id.n}]
                        ELSE unacked
          /\ step' = Event("tx", r, c, res.out, res.skipped, FALSE, FALSE)
    /\ UNCHANGED <<link, uuid, writes, drops, injected, chanops, state, pipe,
                   pc, fragmentable>>

\* the pipe delivers the peer's next frame; PipeSync::pre_wait hands it to rx
Rx(r, c) ==
    /\ link[c]
    /\ wire[Peer(r)][c] # << >>
    /\ \E frame \in {Head(wire[Peer(r)][c])} :
       \E res \in {PatchSync_rx(db[r], sync[r][c], frame)} :
          /\ db' = [db EXCEPT ![r] = res.db]
          /\ sync' = [sync EXCEPT ![r][c] = res.sync]
          /\ wire' = [wire EXCEPT ![Peer(r)][c] = Tail(@)]
          /\ unacked' = IF frame.type = "Ack" /\ frame.id.tag = "Global"
                        THEN [unacked EXCEPT ![r][c] = @ \ {frame.id.n}]
                        ELSE unacked
          /\ step' = Event("rx", r, c, frame, {}, res.merged, res.kept)
    /\ UNCHANGED <<link, uuid, writes, drops, injected, chanops, state, pipe,
                   pc, fragmentable>>

\* r adds the peer to conversation c
CreateChannel(r, c) ==
    /\ chanops < MaxChannelOps
    /\ db[r].conversation[c].ex
    /\ db' = [db EXCEPT ![r] = create_channel(@, r, c)]
    /\ chanops' = chanops + 1
    /\ step' = Quiet
    /\ UNCHANGED <<sync, link, wire, uuid, writes, drops, injected, unacked,
                   state, pipe, pc, fragmentable>>

\* r removes the channel; sync_channels then drops its session
RemoveChannel(r, c) ==
    /\ chanops < MaxChannelOps
    /\ db[r].channel[c].ex
    /\ db' = [db EXCEPT ![r] = remove_channel(@, r, c)]
    /\ link' = [link EXCEPT ![c] = FALSE]
    /\ state' = [q \in Replicas |-> [state[q] EXCEPT ![c] = "Offline"]]
    /\ sync' = [q \in Replicas |-> [sync[q] EXCEPT ![c] = Idle(c)]]
    /\ wire' = [q \in Replicas |-> [wire[q] EXCEPT ![c] = << >>]]
    /\ unacked' = [unacked EXCEPT ![r][c] = {}]
    /\ chanops' = chanops + 1
    /\ step' = Quiet
    /\ UNCHANGED <<uuid, writes, drops, injected, pipe, pc,
                   fragmentable>>

\* what a user does in a conversation
Messaging(r) ==
    \/ \E c \in Convs : SendMessage(r, c)
    \/ \E m \in MsgIds : SetMessageStatus(r, m, Mark(r))

Write(r) ==
    \/ Messaging(r)
    \/ SaveContact(r, patch_key(r))
    \/ \E c \in Convs : SaveConversation(r, c)

Exchange ==
    \/ \E c \in Convs : Connect(c)
    \/ \E r \in Replicas, c \in Convs : Tx(r, c)
    \/ \E r \in Replicas, c \in Convs : Rx(r, c)

\* two honest replicas over a transport that may fail
Next ==
    \/ \E r \in Replicas : Write(r)
    \/ Exchange
    \/ \E c \in Convs : Drop(c)

Spec == Init /\ [][Next]_vars

\* two honest replicas, one session that never fails
NextSession ==
    \/ \E r \in Replicas : Write(r)
    \/ Exchange

SpecSession == Init /\ [][NextSession]_vars

\* two honest replicas: Alice writes, Bob removes and re-creates his channel
NextResync ==
    \/ Write("A")
    \/ Exchange
    \/ \E c \in Convs : CreateChannel("B", c)
    \/ \E c \in Convs : RemoveChannel("B", c)

SpecResync == Init /\ [][NextResync]_vars

\* ------------------------------------------------------------- Alice against any peer
\* a message uuid minted by the peer
PeerMsg == MaxWrites + 1

\* what a peer, honest or not, may put in a Data frame
PeerPatches ==
    {Conversation(c, 9, g, AuthorBob) : c \in Convs, g \in 1 .. MaxGen}
    \cup {Contact("B", 9, 1, AuthorBob)}
    \cup {Member("B", c, AuthorBob) : c \in Convs}
    \cup {NewMessage(PeerMsg, "B", c, 9, 1, AuthorBob, q) : c \in Convs, q \in 1 .. 2}
    \cup {MessageStatus(m, c, 2, 1, AuthorBob) : m \in {1, PeerMsg}, c \in Convs}

\* the peer sends a Data frame of its choosing to r
Inject(r, c, id, p) ==
    /\ link[c]
    /\ injected < MaxInject
    /\ Len(wire[Peer(r)][c]) < MaxWire
    /\ p.msg \in 1 .. MaxWrites => p.msg <= uuid
    /\ wire' = [wire EXCEPT ![Peer(r)][c] = Append(@, Data(id, p))]
    /\ injected' = injected + 1
    /\ step' = Quiet
    /\ UNCHANGED <<db, sync, link, uuid, writes, drops, chanops, unacked,
                   state, pipe, pc, fragmentable>>

\* the peer reads r's next frame and acks it if it is Data
Echo(r, c) ==
    /\ link[c]
    /\ wire[r][c] # << >>
    /\ LET frame == Head(wire[r][c])
       IN /\ frame.type = "Data" => Len(wire[Peer(r)][c]) < MaxWire
          /\ wire' = [wire EXCEPT ![r][c] = Tail(@),
                                  ![Peer(r)][c] = IF frame.type = "Data"
                                                  THEN Append(@, Ack(frame.id))
                                                  ELSE @]
          /\ step' = Quiet
    /\ UNCHANGED <<db, sync, link, uuid, writes, drops, injected, chanops,
                   unacked, state, pipe, pc, fragmentable>>

\* Alice, messaging, in session with a peer that may send any Data frame
NextFaulty ==
    \/ Messaging("A")
    \/ \E c \in Convs : Start({"A"}, c)
    \/ \E c \in Convs : Tx("A", c)
    \/ \E c \in Convs : Rx("A", c)
    \/ \E c \in Convs : Echo("A", c)
    \/ \E c \in Convs, p \in PeerPatches : Inject("A", c, Global(1), p)

SpecFaulty == Init /\ [][NextFaulty]_vars

\* Alice creating and removing channels, her peers acking what they read
NextChannels ==
    \/ \E c \in Convs : SendMessage("A", c)
    \/ SaveContact("A", patch_key("A"))
    \/ \E c \in Convs : Start({"A"}, c)
    \/ \E c \in Convs : Tx("A", c)
    \/ \E c \in Convs : Rx("A", c)
    \/ \E c \in Convs : Echo("A", c)
    \/ \E c \in Convs : CreateChannel("A", c)
    \/ \E c \in Convs : RemoveChannel("A", c)

SpecChannels == Init /\ [][NextChannels]_vars

\* ------------------------------------------------------------- convergence
\* the session for c has nothing in flight and neither tx has anything to return
Quiescent(c) ==
    /\ link[c]
    /\ \A r \in Replicas :
         /\ wire[r][c] = << >>
         /\ PatchSync_tx(db[r], sync[r][c], {}).out = None
         /\ PatchSync_tx(db[r], sync[r][c], {}).skipped = {}

\* the stored (logical id, accepted stamp) pairs of replica r, per entity kind
ContactPairs(r) ==
    {<<k, db[r].contact[k].gen, db[r].contact[k].author>> :
        k \in {x \in Keys : db[r].contact[x].ex}}

ConversationPairs(r, c) ==
    {<<x, db[r].conversation[x].gen, db[r].conversation[x].author>> :
        x \in {y \in {c} : db[r].conversation[y].ex}}

MemberPairs(r, c) == {<<m.key, m.conv, m.author>> : m \in {x \in db[r].member : x.conv = c}}

MemberIds(r, c) == {<<m.key, m.conv>> : m \in {x \in db[r].member : x.conv = c}}

MessagesOf(r, c) == {m \in MsgIds : db[r].message[m].ex /\ db[r].message[m].conv = c}

MessagePairs(r, c) ==
    {<<m, db[r].message[m].gen, db[r].message[m].author, db[r].message[m].seq>> :
        m \in MessagesOf(r, c)}

StatusPairs(r, c) ==
    {<<m, db[r].message[m].sgen, db[r].message[m].sauthor>> : m \in MessagesOf(r, c)}

WritablePairsAgree(c) ==
    /\ ContactPairs("A") = ContactPairs("B")
    /\ ConversationPairs("A", c) = ConversationPairs("B", c)
    /\ MessagePairs("A", c) = MessagePairs("B", c)
    /\ StatusPairs("A", c) = StatusPairs("B", c)

C2_AcksAreProofOfDelivery ==
    \A r \in Replicas, c \in Convs :
        db[r].channel[c].ex =>
            \A k \in unacked[r][c] : db[r].channel[c].sync_index < k

\* Alice's messages of conversation c that Bob does not store
Lost(c) ==
    {m \in MessagesOf("A", c) : db["A"].message[m].author = AuthorAlice /\ ~db["B"].message[m].ex}

\* C3: whatever the step at which the session dropped, once the re-established
\* session is quiescent Bob stores every message Alice sent on C1
C3_NoMessageLost == Quiescent("C1") => Lost("C1") = {}

\* ------------------------------------------------------------- the outbound gates
\* C4: tx never returns Data whose patch was authored by the session's peer
C4_EchoSuppression ==
    (step.op = "tx" /\ step.frame.type = "Data") =>
        SyncData_author(step.frame.payload) # sync[step.r][step.c].author

\* tx returned Data after acking locally a peer-authored row of the
\* initial-sync queue
C4_Witness ==
    /\ step.op = "tx"
    /\ step.frame.type = "Data"
    /\ \E k \in step.skipped :
         /\ k.id.tag = "InitialSync"
         /\ SyncData_author(k.payload) = sync[step.r][step.c].author

\* C5: tx on the channel for c never returns Data of another conversation, and
\* it skips a row only if the peer authored it or it names another
\* conversation: a Contact patch of another author is never skipped
C5_ConversationScoping ==
    step.op = "tx" =>
        /\ step.frame.type = "Data" =>
               SyncData_conversation(step.frame.payload) \in {NoConv, step.c}
        /\ \A k \in step.skipped :
               \/ SyncData_author(k.payload) = sync[step.r][step.c].author
               \/ SyncData_conversation(k.payload) \notin {NoConv, step.c}

\* the channel for C2 returned a Contact patch after skipping a row of C1
C5_Witness ==
    /\ step.op = "tx"
    /\ step.c = "C2"
    /\ step.frame.type = "Data"
    /\ step.frame.payload.kind = "Contact"
    /\ \E k \in step.skipped : SyncData_conversation(k.payload) = "C1"

\* ------------------------------------------------------------- the inbound gate
\* the step just taken is r's rx, on the session for c, of a Data frame
RxData(ev, r, c) == ev.op = "rx" /\ ev.r = r /\ ev.c = c /\ ev.frame.type = "Data"

\* C6: rx of Data that names another conversation than the session's does not
\* invoke the merge kernel, leaves the whole database as it was, and appends
\* Ack(id) of that Data to the session's tx queue
C6_InboundGate ==
    [][\A r \in Replicas, c \in Convs :
         (RxData(step', r, c)
            /\ SyncData_conversation(step'.frame.payload) \notin {NoConv, c}) =>
             /\ ~step'.merged
             /\ db'[r] = db[r]
             /\ sync'[r][c].tx = Append(sync[r][c].tx, Ack(step'.frame.id))]_vars

\* Alice, on the session for C1, has just received Data of C2 and queued its Ack
C6_Witness ==
    /\ RxData(step, "A", "C1")
    /\ SyncData_conversation(step.frame.payload) = "C2"
    /\ sync["A"]["C1"].tx # << >>
    /\ sync["A"]["C1"].tx[Len(sync["A"]["C1"].tx)] = Ack(step.frame.id)

\* ------------------------------------------------------------- the merge decision
\* (generation, then author)
GenAuthorGreater(a, b) == a.gen > b.gen \/ (a.gen = b.gen /\ a.author > b.author)

\* the order of each kind's stamp type: Writable for Contact, Conversation and
\* MessageStatus, WritableSequence for NewMessage, the singleton for Member
StampGreater(kind, a, b) ==
    CASE kind = "Member" -> FALSE
      [] kind = "NewMessage" ->
           GenAuthorGreater(a, b) \/ (a.gen = b.gen /\ a.author = b.author /\ a.seq > b.seq)
      [] OTHER -> GenAuthorGreater(a, b)

\* the stamp a patch carries, as existent() would read it back
StampOf(kind, a) ==
    [ex |-> TRUE, gen |-> IF kind = "Member" THEN 0 ELSE a.gen, author |-> a.author,
     seq |-> IF kind = "NewMessage" THEN a.seq ELSE 0]

\* C7 as stated: an inbound merge keeps the patch iff no row is stored for its
\* logical id or its stamp is greater in (generation, then author); a patch it
\* does not keep leaves the database unchanged
C7_MergeDecision ==
    [][\A r \in Replicas, c \in Convs :
         (RxData(step', r, c) /\ step'.merged) =>
             LET p == step'.frame.payload
                 e == existent(db[r], p)
             IN /\ step'.kept <=> (~e.ex \/ GenAuthorGreater(crdt(p), e))
                /\ ~step'.kept => db'[r] = db[r]]_vars

\* C7 amended: an inbound merge keeps the patch iff no row is stored for its
\* logical id or its stamp is strictly greater in the order of its stamp type:
\* (generation, author) for Writable, (generation, author, sequence) for
\* WritableSequence, never for AddOnly; a kept patch is stored with its stamp,
\* a patch not kept (an equal stamp included) leaves the database unchanged
C7_MergeDecisionByStampType ==
    [][\A r \in Replicas, c \in Convs :
         (RxData(step', r, c) /\ step'.merged) =>
             LET p == step'.frame.payload
                 e == existent(db[r], p)
             IN /\ step'.kept <=> (~e.ex \/ StampGreater(p.kind, crdt(p), e))
                /\ step'.kept => existent(db'[r], p) = StampOf(p.kind, crdt(p))
                /\ ~step'.kept => db'[r] = db[r]]_vars

\* Alice has just merged, and not kept, a patch whose stamp equals the stored one
C7_Witness ==
    /\ RxData(step, "A", "C1")
    /\ step.merged
    /\ ~step.kept
    /\ step.frame.payload.kind = "Conversation"
    /\ existent(db["A"], step.frame.payload) = StampOf("Conversation", crdt(step.frame.payload))

\* ------------------------------------------------------------- the status sub-merge
\* the content of a message row: everything but status and the status stamp
Content(row) == <<row.text, row.from, row.conv, row.attachment, row.gen, row.author, row.seq>>

\* the step being taken applies a MessageStatus patch to r's message m
StatusApplied(r, m) ==
    \/ SetMessageStatus(r, m, Mark(r))
    \/ /\ \E c \in Convs : RxData(step', r, c)
       /\ step'.kept
       /\ step'.frame.payload.kind = "MessageStatus"
       /\ step'.frame.payload.msg = m

\* C8: a MessageStatus patch applied to a stored message, by set_message_status
\* or by an inbound merge, leaves the message's text, from key, conversation,
\* attachment, content stamp and sequence as they were
C8_StatusFrame ==
    [][\A r \in Replicas, m \in MsgIds :
         (db[r].message[m].ex /\ StatusApplied(r, m)) =>
             Content(db'[r].message[m]) = Content(db[r].message[m])]_vars

\* ------------------------------------------------------------- garbage collection
ExistingChannels(r) == {c \in Convs : db[r].channel[c].ex}

\* C9: no global sync row is retained whose id is at most the minimum
\* sync_index of the existing channels
C9_GCComplete ==
    \A r \in Replicas :
        ExistingChannels(r) # {} =>
            \A row \in db[r].sync :
                row.id > Min({db[r].channel[c].sync_index : c \in ExistingChannels(r)})

\* C10: a global sync row that a step deletes has an id at most the sync_index
\* of every channel that exists after the step
C10_GCSafety ==
    [][\A r \in Replicas :
         \A row \in db[r].sync :
             row \notin db'[r].sync =>
                 \A c \in Convs :
                     db'[r].channel[c].ex => db'[r].channel[c].sync_index >= row.id]_vars

\* Alice holds two channels and has just processed, on one of them, the Ack of
\* a global row the other channel's sync_index had already passed: the row is
\* gone, a later row stays
C10_Witness ==
    /\ ExistingChannels("A") = Convs
    /\ step.op = "rx"
    /\ step.frame.type = "Ack"
    /\ step.frame.id.tag = "Global"
    /\ db["A"].channel[step.c].sync_index = step.frame.id.n
    /\ \A c \in Convs : db["A"].channel[c].sync_index >= step.frame.id.n
    /\ \A row \in db["A"].sync : row.id # step.frame.id.n
    /\ \E row \in db["A"].sync : row.id > step.frame.id.n

\* ------------------------------------------------------------- acks of any id
\* the largest id a peer puts in an Ack of its own making
MaxAckId == 3

\* Global ids a peer may ack, whether or not it was ever sent them
AckIds == {Global(n) : n \in 0 .. MaxAckId}

\* the peer sends an Ack frame of its choosing to r
InjectAck(r, c, id) ==
    /\ link[c]
    /\ injected < MaxInject
    /\ Len(wire[Peer(r)][c]) < MaxWire
    /\ wire' = [wire EXCEPT ![Peer(r)][c] = Append(@, Ack(id))]
    /\ injected' = injected + 1
    /\ step' = Quiet
    /\ UNCHANGED <<db, sync, link, uuid, writes, drops, chanops, unacked,
                   state, pipe, pc, fragmentable>>

\* Alice writes in C2 and adds Bob to it; the session for C1 drops and reconnects,
\* and on it her peer acks whatever it likes
NextAcks ==
    \/ SendMessage("A", "C2")
    \/ \E c \in Convs : Start({"A"}, c)
    \/ \E c \in Convs : Tx("A", c)
    \/ \E c \in Convs : Rx("A", c)
    \/ \E c \in Convs : Echo("A", c)
    \/ \E id \in AckIds : InjectAck("A", "C1", id)
    \/ Drop("C1")
    \/ CreateChannel("A", "C2")

SpecAcks == Init /\ [][NextAcks]_vars

\* C11: while a channel lives, no step lowers its sync_index, whether the step
\* is an ack of any id, a tx skip, a reconnect or an operation on another channel.
C11_SyncIndexMonotonic ==
    [][\A r \in Replicas, c \in Convs :
          (db[r].channel[c].ex /\ db'[r].channel[c].ex
              /\ db'[r].channel[c].id = db[r].channel[c].id)
          => db'[r].channel[c].sync_index >= db[r].channel[c].sync_index]_vars

\* an Ack(Global(n)) was processed on a channel whose sync_index is already above n,
\* while a second channel exists
C11_Witness ==
    /\ step.op = "rx"
    /\ step.frame.type = "Ack"
    /\ step.frame.id.tag = "Global"
    /\ db[step.r].channel[step.c].ex
    /\ step.frame.id.n < db[step.r].channel[step.c].sync_index
    /\ \A c \in Convs : db[step.r].channel[c].ex

\* ------------------------------------------------------------- stored stamps
\* the stamps stored for a message row: of its content and of its status
ContentStamp(row) == [gen |-> row.gen, author |-> row.author, seq |-> row.seq]
StatusStamp(row) == [gen |-> row.sgen, author |-> row.sauthor, seq |-> 0]

C13_MergeIdempotent ==
    (step.op = "rx" /\ step.frame.type = "Data" /\ step.merged) =>
        LET p == step.frame.payload
            twice == merge(db[step.r], p)
        IN /\ ~twice.kept
           /\ twice.db = db[step.r]
           /\ merge_new_patch(db[step.r], p) = db[step.r]

\* a patch was delivered again: rx merged a Data frame whose stamp is the stored
\* one, and kept nothing
C13_Witness ==
    /\ step.op = "rx"
    /\ step.frame.type = "Data"
    /\ step.merged
    /\ ~step.kept
    /\ step.frame.payload.kind = "NewMessage"
    /\ LET e == existent(db[step.r], step.frame.payload)
       IN e.ex /\ e.gen = step.frame.payload.gen /\ e.author = step.frame.payload.author
               /\ e.seq = step.frame.payload.seq

\* ------------------------------------------------------------- the stamp orders
\* generations, authors and sequences stamps are drawn from
StampGens == {-1, 0, 1, MaxGen, MaxI32}
StampAuthors == {0, AuthorAlice, AuthorBob}
StampSeqs == 0 .. 2

StampKinds == {"Conversation", "NewMessage", "Member"}

\* the stamps of a patch variant: Writable, WritableSequence or AddOnly
Stamps(kind) ==
    CASE kind = "NewMessage" ->
           {[gen |-> g, author |-> a, seq |-> q] :
               g \in StampGens, a \in StampAuthors, q \in StampSeqs}
      [] kind = "Member" -> {[gen |-> 0, author |-> a, seq |-> 0] : a \in StampAuthors}
      [] OTHER -> {[gen |-> g, author |-> a, seq |-> 0] : g \in StampGens, a \in StampAuthors}

\* the store at rest, and two stamps of one type yet to be used
InitStamps ==
    /\ Settled
    /\ Unframed
    /\ \E kind \in StampKinds : \E a, b \in Stamps(kind) :
          step = [op |-> "input", kind |-> kind, a |-> a, b |-> b,
                  lt |-> FALSE, eq |-> FALSE, gt |-> FALSE, panicked |-> FALSE]

\* the two stamps are compared
Compare ==
    /\ step.op = "input"
    /\ step' = [step EXCEPT !.op = "compare",
                            !.lt = crdt_lt(step.kind, step.a, step.b),
                            !.eq = crdt_eq(step.kind, step.a, step.b),
                            !.gt = crdt_gt(step.kind, step.a, step.b)]
    /\ UNCHANGED <<db, sync, link, wire, uuid, writes, drops, injected,
                   chanops, unacked, state, pipe, pc, fragmentable>>

\* next(a, author of b) is taken and left in b; with a.generation = i32::MAX the
\* addition panics in a build with overflow checks and wraps in one without
NextStamp ==
    /\ step.op = "input"
    /\ \E panicked \in (IF step.kind # "Member" /\ step.a.gen = MaxI32
                        THEN BOOLEAN ELSE {FALSE}) :
          step' = [step EXCEPT !.op = "next",
                               !.b = IF panicked THEN step.a
                                     ELSE CrdtOrd_next(step.kind, step.a, step.b.author),
                               !.panicked = panicked]
    /\ UNCHANGED <<db, sync, link, wire, uuid, writes, drops, injected,
                   chanops, unacked, state, pipe, pc, fragmentable>>

NextStamps == Compare \/ NextStamp

SpecStamps == InitStamps /\ [][NextStamps]_vars

Trichotomy ==
    step.op = "compare" =>
        \/ step.lt /\ ~step.eq /\ ~step.gt
        \/ ~step.lt /\ step.eq /\ ~step.gt
        \/ ~step.lt /\ ~step.eq /\ step.gt

InitTitles == db = Paired /\ Offline /\ Unframed /\ step = Quiet

\* both edit the title of C1, in and out of a session that never fails
NextTitles ==
    \/ \E r \in Replicas : SaveConversation(r, "C1")
    \/ Exchange

SpecTitles == InitTitles /\ [][NextTitles]_vars

Title(r) == db[r].conversation["C1"]
TitleRow(title, gen, auth) == [ex |-> TRUE, title |-> title, gen |-> gen, author |-> auth]

\* Alice's title is stamped (1, Alice), Bob's (1, Bob): neither has seen the other's
ConcurrentTitles ==
    /\ Title("A").gen = 1 /\ Title("A").author = AuthorAlice
    /\ Title("B").gen = 1 /\ Title("B").author = AuthorBob

\* a session for C1, started on stores d and run until nothing is left to send
Drain(d) ==
    Session(d, [r \in Replicas |-> PatchSync_new(d[r].channel["C1"].id, author(Peer(r)), "C1")],
            "C1")

\* what a drain does to concurrent titles, computed and under every interleaving
DrainedTitles ==
    /\ (ConcurrentTitles /\ ~link["C1"]) =>
          LET d1 == Drain(db)
              d2 == [d1 EXCEPT !["A"] = save_conversation(@, "A", "C1", AuthorAlice)]
              d3 == Drain(d2)
          IN /\ d1["A"].conversation["C1"] = TitleRow(AuthorBob, 1, AuthorBob)
             /\ d1["B"].conversation["C1"] = TitleRow(AuthorBob, 1, AuthorBob)
             /\ d2["A"].conversation["C1"] = TitleRow(AuthorAlice, 2, AuthorAlice)
             /\ d3["A"].conversation["C1"] = TitleRow(AuthorAlice, 2, AuthorAlice)
             /\ d3["B"].conversation["C1"] = TitleRow(AuthorAlice, 2, AuthorAlice)
    /\ (Quiescent("C1") /\ Title("B").gen = 1 /\ Title("B").author = AuthorBob) =>
          Title("A") = TitleRow(AuthorBob, 1, AuthorBob) /\ Title("B") = Title("A")
    /\ (Quiescent("C1") /\ Title("A").gen = 2 /\ Title("A").author = AuthorAlice) =>
          Title("B") = TitleRow(AuthorAlice, 2, AuthorAlice) /\ Title("A") = Title("B")

\* C15: when Alice's title is stamped (1, 5) and Bob's (1, 7), a session that
\* drains leaves Bob's title on both replicas; an edit by Alice after that is
\* stamped (2, 5), and once drained it is the title on both replicas. The same
\* under every interleaving: drained replicas where Bob still holds (1, 7) both
\* hold Bob's title, Alice's edit of it is stamped (2, 5), and drained replicas
\* where Alice holds (2, 5) both hold hers.
C15_ConcurrentTitleEdits ==
    /\ []DrainedTitles
    /\ [][(SaveConversation("A", "C1") /\ Title("A") = TitleRow(AuthorBob, 1, AuthorBob))
             => Title("A")' = TitleRow(AuthorAlice, 2, AuthorAlice)]_vars

\* both replicas are drained and hold Alice's second title, and Alice's log has
\* both Bob's title, which she merged, and her own edit after it
C15_Witness ==
    /\ Quiescent("C1")
    /\ Title("A") = TitleRow(AuthorAlice, 2, AuthorAlice)
    /\ Title("B") = TitleRow(AuthorAlice, 2, AuthorAlice)
    /\ writes = 2
    /\ db["A"].sync_seq = Drained["A"].sync_seq + 2

\* ------------------------------------------------------------- channels
KEY_LENGTH == 32

\* a key one byte short of KEY_LENGTH
ShortKey == "short"

key_len(k) == IF k = ShortKey THEN KEY_LENGTH - 1 ELSE KEY_LENGTH

\* Key::new: Ok iff the key is KEY_LENGTH bytes long
Key_new(k) == key_len(k) = KEY_LENGTH

\* bincode::deserialize of a received frame: Key::deserialize runs Key::new on
\* the key of the patch; FALSE is the Err
deserialize(frame) ==
    (frame.type = "Data" /\ frame.payload.key # NoKey) => Key_new(frame.payload.key)

\* the end of the peer's stream, as the pipe reports it
Eof == [type |-> "Eof", id |-> Global(0), payload |-> NoPatch]

ChannelStateLabel == {"Offline", "PreConnecting", "Connecting", "Connected"}

ChannelValue == {"StartConnection", "Connected", "PipeSyncValue", "Error"}

\* Channel::connect
Channel_connect(st) == "PreConnecting"

\* a wait that takes a PreConnecting channel straight to Connected
Channel_wait_without_connecting(st, ok) ==
    CASE st = "PreConnecting" -> [state |-> "Connected", value |-> "Connected"]
      [] st = "Connecting" -> IF ok THEN [state |-> "Connected", value |-> "Connected"]
                              ELSE [state |-> "Offline", value |-> "Error"]
      [] st = "Connected" -> IF ok THEN [state |-> st, value |-> "PipeSyncValue"]
                             ELSE [state |-> "Offline", value |-> "Error"]

\* Channel::wait on a channel that is not Offline (an Offline channel never
\* returns): [state, value]; ~ok is the Err of wait_impl
Channel_wait(st, ok) ==
    CASE st = "PreConnecting" -> [state |-> st, value |-> "StartConnection"]
      [] st = "Connecting" -> IF ok THEN [state |-> "Connected", value |-> "Connected"]
                              ELSE [state |-> "Offline", value |-> "Error"]
      [] st = "Connected" -> IF ok THEN [state |-> st, value |-> "PipeSyncValue"]
                             ELSE [state |-> "Offline", value |-> "Error"]

\* a then that swallows the Err of PipeSync::then
Channel_then_keeps_state(st, value, ok) ==
    CASE st = "PreConnecting" /\ value = "StartConnection" -> "Connecting"
      [] OTHER -> st

\* Channel::then: the state it leaves; ~ok is the Err of PipeSync::then
Channel_then(st, value, ok) ==
    CASE st = "PreConnecting" /\ value = "StartConnection" -> "Connecting"
      [] st = "Connected" /\ value = "PipeSyncValue" -> IF ok THEN st ELSE "Offline"
      [] OTHER -> st

\* Channel::close
Channel_close(st) == "Offline"

NoCause == [c \in Convs |-> "-"]

\* a hub step: the channels connected and the channels that failed, with the cause
HubEvent(op, r, c, frame, connect, cause) ==
    [op |-> op, r |-> r, c |-> c, frame |-> frame, skipped |-> {},
     merged |-> FALSE, kept |-> FALSE, connect |-> connect, cause |-> cause]

\* what a hub cycle of r works on
Hub(r) ==
    [db |-> db[r], state |-> state[r], sync |-> sync[r], pipe |-> pipe[r],
     unacked |-> unacked[r], link |-> link, wire |-> wire,
     connect |-> {}, cause |-> NoCause]

\* the channel's state is taken and not put back: its PatchSync and its pipe
\* are dropped with it, and the frames in flight are lost
Dropped(h, c, cause) ==
    [h EXCEPT !.state[c] = "Offline", !.sync[c] = Idle(c), !.pipe[c] = PipeSync_new,
              !.link[c] = FALSE,
              !.wire = [q \in Replicas |-> [h.wire[q] EXCEPT ![c] = << >>]],
              !.cause[c] = cause]

\* the rest of PipeSync::pre_wait once rx has run: tx, whose frame becomes the
\* pending Tx (res is what tx returns)
pre_wait_tx(p, rx, res) ==
    CHOOSE out \in
        {[ok |-> TRUE, cause |-> "-", db |-> t.db, sync |-> t.sync,
          pipe |-> [p EXCEPT !.pending = IF t.out = None THEN NoPending
                                         ELSE Pending("Tx", t.out)],
          rx |-> rx, out |-> t.out] : t \in {res}} : TRUE

\* the pending Rx handed to rx (res is what rx returns)
pre_wait_rx(p, res) ==
    CHOOSE out \in
        {pre_wait_tx(p, p.pending.frame, PatchSync_tx(got.db, got.sync, {})) :
            got \in {res}} : TRUE

\* a pre_wait that queries tx although a Tx is pending, and replaces it
PipeSync_pre_wait_overwrites(d, s, p, store_error) ==
    LET unchanged == [ok |-> TRUE, cause |-> "-", db |-> d, sync |-> s, pipe |-> p,
                      rx |-> None, out |-> None]
    IN CASE p.pending.kind = "Rx" /\ ~deserialize(p.pending.frame) ->
              [unchanged EXCEPT !.ok = FALSE, !.cause = "deserialize"]
         [] store_error -> [unchanged EXCEPT !.ok = FALSE, !.cause = "store"]
         [] p.pending.kind = "Rx" -> pre_wait_rx(p, PatchSync_rx(d, s, p.pending.frame))
         [] OTHER -> pre_wait_tx(p, None, PatchSync_tx(d, s, {}))

\* a pre_wait that leaves a pending Rx where it is
PipeSync_pre_wait_keeps_rx(d, s, p, store_error) ==
    LET unchanged == [ok |-> TRUE, cause |-> "-", db |-> d, sync |-> s, pipe |-> p,
                      rx |-> None, out |-> None]
    IN CASE p.pending.kind \in {"Tx", "Rx"} -> unchanged
         [] store_error -> [unchanged EXCEPT !.ok = FALSE, !.cause = "store"]
         [] OTHER -> pre_wait_tx(p, None, PatchSync_tx(d, s, {}))

\* PipeSync::pre_wait: a pending Rx is deserialized and handed to rx, then tx
\* runs; a pending Tx is left alone
PipeSync_pre_wait(d, s, p, store_error) ==
    LET unchanged == [ok |-> TRUE, cause |-> "-", db |-> d, sync |-> s, pipe |-> p,
                      rx |-> None, out |-> None]
    IN CASE p.pending.kind = "Tx" -> unchanged
         [] p.pending.kind = "Rx" /\ ~deserialize(p.pending.frame) ->
              [unchanged EXCEPT !.ok = FALSE, !.cause = "deserialize"]
         [] store_error -> [unchanged EXCEPT !.ok = FALSE, !.cause = "store"]
         [] p.pending.kind = "Rx" -> pre_wait_rx(p, PatchSync_rx(d, s, p.pending.frame))
         [] OTHER -> pre_wait_tx(p, None, PatchSync_tx(d, s, {}))

\* the hub connects the channel if it is Offline (start_sync)
hub_connect(h, r, c) ==
    IF h.state[c] = "Offline"
    THEN [h EXCEPT !.state[c] = Channel_connect(@),
                   !.sync[c] = PatchSync_new(h.db.channel[c].id, author(Peer(r)), c),
                   !.connect = @ \cup {c}]
    ELSE h

\* Channel::pre_wait_impl on a Connected channel
pre_wait_impl(h, c, store_error) ==
    IF h.pipe[c].rx_closed THEN Dropped(h, c, "eof")
    ELSE CHOOSE out \in
           {IF ~res.ok THEN Dropped(h, c, res.cause)
            ELSE [h EXCEPT
                    !.db = res.db, !.sync[c] = res.sync, !.pipe[c] = res.pipe,
                    !.unacked[c] =
                        (@ \ (IF res.rx.type = "Ack" /\ res.rx.id.tag = "Global"
                              THEN {res.rx.id.n} ELSE {}))
                        \cup (IF res.out.type = "Data" /\ res.out.id.tag = "Global"
                              THEN {res.out.id.n} ELSE {})] :
              res \in {PipeSync_pre_wait(h.db, h.sync[c], h.pipe[c], store_error)}} :
           TRUE

\* Channel::pre_wait: only a Connected channel has anything to do
Channel_pre_wait(h, c, store_error) ==
    IF h.state[c] # "Connected" THEN h ELSE pre_wait_impl(h, c, store_error)

\* the hub's turn for one channel
pre_wait(h, r, c, err) ==
    IF h.db.channel[c].ex
    THEN CHOOSE out \in {Channel_pre_wait(h1, c, c \in err) :
                            h1 \in {hub_connect(h, r, c)}} : TRUE
    ELSE h

\* Server::wait up to select_all: every channel in turn
hub_pre_wait(h, r, err) ==
    CHOOSE out \in {pre_wait(h1, r, "C2", err) : h1 \in {pre_wait(h, r, "C1", err)}} :
        TRUE

\* the first half of a hub cycle
HubPreWait(r) ==
    /\ pc[r] = "pre_wait"
    /\ \E c \in Convs : db[r].channel[c].ex
    /\ \E err \in SUBSET Convs :
         \E now \in {Hub(r)} : \E h \in {hub_pre_wait(now, r, err)} :
            /\ err = {c \in Convs : h.cause[c] = "store"}
            /\ drops + Cardinality(err) <= MaxDrops
            /\ db' = [db EXCEPT ![r] = h.db]
            /\ state' = [state EXCEPT ![r] = h.state]
            /\ sync' = [sync EXCEPT ![r] = h.sync]
            /\ pipe' = [pipe EXCEPT ![r] = h.pipe]
            /\ unacked' = [unacked EXCEPT ![r] = h.unacked]
            /\ link' = h.link
            /\ wire' = h.wire
            /\ drops' = drops + Cardinality(err)
            /\ step' = HubEvent("pre_wait", r, NoConv, None, h.connect, h.cause)
    /\ pc' = [pc EXCEPT ![r] = "wait"]
    /\ UNCHANGED <<uuid, writes, injected, chanops, fragmentable>>

\* what Channel::wait and Channel::then of channel c leave of the hub;
\* fail names the call that returns Err
hub_wait(now, r, c, fail) ==
    LET st == now.state[c]
        pending == now.pipe[c].pending
        inbound == now.wire[Peer(r)][c]
        w == Channel_wait(st, fail # "wait")
        st2 == Channel_then(w.state, w.value, fail # "then")
        cause == CASE fail = "none" -> "-"
                   [] fail = "wait" /\ st = "Connecting" -> "connect"
                   [] fail = "then" /\ pending.kind = "Tx" -> "send"
                   [] OTHER -> "transport"
        h == CASE st2 = "Offline" -> Dropped(now, c, cause)
               [] st = "PreConnecting" -> [now EXCEPT !.state[c] = st2]
               [] st = "Connecting" ->
                    [now EXCEPT !.state[c] = st2, !.pipe[c] = PipeSync_new,
                                !.link[c] = TRUE]
               [] pending.kind = "Tx" ->
                    [now EXCEPT !.pipe[c].pending = NoPending,
                                !.wire[r][c] = Append(@, pending.frame)]
               [] Head(inbound) = Eof ->
                    [now EXCEPT !.pipe[c].rx_closed = TRUE,
                                !.wire[Peer(r)][c] = Tail(@)]
               [] OTHER ->
                    [now EXCEPT !.pipe[c].pending = Pending("Rx", Head(inbound)),
                                !.wire[Peer(r)][c] = Tail(@)]
    IN [h EXCEPT !.cause[c] = cause]

\* the second half of a hub cycle: select_all returns the value of channel c's
\* wait, and then() is given it
HubWait(r, c, fail) ==
    LET st == state[r][c]
        pending == pipe[r][c].pending
        inbound == wire[Peer(r)][c]
    IN /\ pc[r] = "wait"
       /\ db[r].channel[c].ex
       /\ st # "Offline"
       /\ CASE fail = "none" ->
                 \/ st \in {"PreConnecting", "Connecting"}
                 \/ st = "Connected" /\ pending.kind = "Tx" /\ Len(wire[r][c]) < MaxWire
                 \/ st = "Connected" /\ pending.kind = "None" /\ inbound # << >>
            [] fail = "wait" ->
                 /\ drops < MaxDrops
                 /\ st = "Connecting" \/ (st = "Connected" /\ pending.kind = "None")
            [] OTHER ->
                 /\ drops < MaxDrops
                 /\ st = "Connected"
                 /\ pending.kind = "Tx" \/ (pending.kind = "None" /\ inbound # << >>)
       /\ \E now \in {Hub(r)} : \E h \in {hub_wait(now, r, c, fail)} :
            /\ state' = [state EXCEPT ![r] = h.state]
            /\ sync' = [sync EXCEPT ![r] = h.sync]
            /\ pipe' = [pipe EXCEPT ![r] = h.pipe]
            /\ link' = h.link
            /\ wire' = h.wire
            /\ step' = HubEvent("wait", r, c,
                                IF st = "Connected" /\ fail = "none"
                                THEN (IF pending.kind = "Tx" THEN pending.frame
                                      ELSE Head(inbound))
                                ELSE None,
                                {}, h.cause)
       /\ drops' = IF fail = "none" THEN drops ELSE drops + 1
       /\ pc' = [pc EXCEPT ![r] = "pre_wait"]
       /\ UNCHANGED <<db, uuid, writes, injected, chanops, unacked,
                   fragmentable>>

\* Chat::close: every channel is closed and the hub is gone
HubClose(r) ==
    /\ pc[r] = "pre_wait"
    /\ \E c \in Convs : state[r][c] # "Offline"
    /\ state' = [state EXCEPT ![r] = [c \in Convs |-> Channel_close(@[c])]]
    /\ sync' = [sync EXCEPT ![r] = [c \in Convs |-> Idle(c)]]
    /\ pipe' = [pipe EXCEPT ![r] = [c \in Convs |-> PipeSync_new]]
    /\ link' = [c \in Convs |-> link[c] /\ state[r][c] = "Offline"]
    /\ wire' = [q \in Replicas |->
                  [c \in Convs |-> IF state[r][c] = "Offline" THEN wire[q][c]
                                   ELSE << >>]]
    /\ pc' = [pc EXCEPT ![r] = "closed"]
    /\ step' = HubEvent("close", r, NoConv, None, {},
                        [c \in Convs |-> IF state[r][c] = "Offline" THEN "-"
                                         ELSE "close"])
    /\ UNCHANGED <<db, uuid, writes, drops, injected, chanops, unacked,
                   fragmentable>>

\* the server handles a control message at the top of its loop
handle_message(r, c) ==
    /\ pc[r] = "pre_wait"
    /\ SendMessage(r, c)

\* a control command adds a channel; sync_channels picks it up, Offline
sync_channels(r, c) ==
    /\ pc[r] = "pre_wait"
    /\ ~db[r].channel[c].ex
    /\ CreateChannel(r, c)

\* the peer closes its end
PeerClose(r, c) ==
    /\ link[c]
    /\ injected < MaxInject
    /\ Len(wire[Peer(r)][c]) < MaxWire
    /\ wire' = [wire EXCEPT ![Peer(r)][c] = Append(@, Eof)]
    /\ injected' = injected + 1
    /\ step' = Quiet
    /\ UNCHANGED <<db, sync, link, uuid, writes, drops, chanops, unacked,
                   state, pipe, pc, fragmentable>>

\* what the peer may send: a patch it wrote, and a contact whose key is short
HubPatches ==
    {NewMessage(PeerMsg, "B", "C1", 9, 1, AuthorBob, 1),
     Contact(ShortKey, 9, 1, AuthorBob)}

\* Alice's hub, her peer sending, acking and closing as it likes
NextServer ==
    \/ handle_message("A", "C1")
    \/ sync_channels("A", "C2")
    \/ HubPreWait("A")
    \/ \E c \in Convs, fail \in {"none", "wait", "then"} : HubWait("A", c, fail)
    \/ \E c \in Convs : Echo("A", c)
    \/ \E p \in HubPatches : Inject("A", "C1", Global(1), p)
    \/ PeerClose("A", "C1")

NextHub == NextServer \/ HubClose("A")

SpecHub == Init /\ [][NextHub]_vars

\* ------------------------------------------------------------- C16
\* the pending Rx of r's channel for c is a frame with a bad key, and the
\* channel is Connected with its receive side open: the next pre_wait meets it
BadKeyPending(r, c) ==
    /\ state[r][c] = "Connected"
    /\ ~pipe[r][c].rx_closed
    /\ pipe[r][c].pending.kind = "Rx"
    /\ pipe[r][c].pending.frame.type = "Data"
    /\ key_len(pipe[r][c].pending.frame.payload.key) # KEY_LENGTH

\* C16: when a received patch has a key that is not KEY_LENGTH bytes long, only
\* that patch is dropped: the store is left as it was, an Ack of the frame is
\* queued for the peer, and the channel stays Connected
C16_BadKeyAcked ==
    [][\A c \in Convs :
          (BadKeyPending("A", c) /\ pc["A"] = "pre_wait" /\ pc'["A"] = "wait")
          => /\ state'["A"][c] = "Connected"
             /\ db'["A"] = db["A"]
             /\ \/ pipe'["A"][c].pending =
                      Pending("Tx", Ack(pipe["A"][c].pending.frame.id))
                \/ \E i \in DOMAIN sync'["A"][c].tx :
                      sync'["A"][c].tx[i] = Ack(pipe["A"][c].pending.frame.id)]_vars

\* ------------------------------------------------------------- C17
\* the server's loop runs whenever it can: pre_wait needs nothing to go on,
\* and select_all returns as soon as one channel's wait is ready
SpecServer ==
    /\ Init
    /\ [][NextServer]_vars
    /\ WF_vars(HubPreWait("A"))
    /\ WF_vars(\E c \in Convs, fail \in {"none", "wait", "then"} : HubWait("A", c, fail))

\* every channel of r is Offline while r's hub waits in select_all
BlockedOffline(r) ==
    /\ pc[r] = "wait"
    /\ \E c \in Convs : db[r].channel[c].ex
    /\ \A c \in Convs : db[r].channel[c].ex => state[r][c] = "Offline"

\* C17: every channel that drops to Offline is connected again (PreConnecting,
\* with a fresh PatchSync) by a later hub cycle, and the hub does not wait
\* forever while all of its channels are Offline
C17_HubReconnects ==
    /\ \A c \in Convs :
         (db["A"].channel[c].ex /\ state["A"][c] = "Offline")
         ~> (state["A"][c] = "PreConnecting"
             /\ sync["A"][c] = PatchSync_new(db["A"].channel[c].id, AuthorBob, c))
    /\ BlockedOffline("A") ~> pc["A"] = "pre_wait"

\* ------------------------------------------------------------- C18
\* the event is the one then_impl has an arm for in this state
Matches(st, value) ==
    \/ st = "PreConnecting" /\ value = "StartConnection"
    \/ st = "Connected" /\ value = "PipeSyncValue"

\* then() given an event that does not match the state leaves the state alone
ThenIgnoresMismatch ==
    \A st \in ChannelStateLabel, value \in ChannelValue, ok \in BOOLEAN :
        ~Matches(st, value) => Channel_then(st, value, ok) = st

\* the step from state[r][c] to its next value is one the lifecycle allows
LifecycleStep(r, c) ==
    \/ state'[r][c] = state[r][c]
    \/ state'[r][c] = "Offline"
    \/ /\ state[r][c] = "Offline" /\ state'[r][c] = "PreConnecting"
       /\ step'.op = "pre_wait" /\ step'.r = r /\ c \in step'.connect
    \/ /\ state[r][c] = "PreConnecting" /\ state'[r][c] = "Connecting"
       /\ step'.op = "wait" /\ step'.r = r /\ step'.c = c
    \/ /\ state[r][c] = "Connecting" /\ state'[r][c] = "Connected"
       /\ step'.op = "wait" /\ step'.r = r /\ step'.c = c
       /\ pipe'[r][c] = PipeSync_new

\* C18: a channel starts Offline; its state changes only from Offline to
\* PreConnecting (connect), from PreConnecting to Connecting (then of a
\* StartConnection event), from Connecting to Connected (the connect future
\* resolves to a pipe) or to Offline; then() with an event that does not match
\* the state leaves the state unchanged
C18_LifecycleOrder ==
    /\ \A r \in Replicas, c \in Convs : state[r][c] = "Offline"
    /\ []ThenIgnoresMismatch
    /\ [][\A r \in Replicas, c \in Convs : LifecycleStep(r, c)]_vars

\* a channel created while the hub runs has gone all the way to Connected
C18_Witness ==
    /\ step.op = "wait" /\ step.c = "C2" /\ step.frame = None
    /\ state["A"]["C2"] = "Connected"
    /\ link["C2"]
    /\ pipe["A"]["C2"] = PipeSync_new

\* ------------------------------------------------------------- C19
\* the initial_sync rows still pending for r's channel for c
PendingInitial(d, c) == {i \in d.initial_sync : i.channel = d.channel[c].id}

Snapshot(d, ch) ==
    SeqOfRows({[rank |-> i.id, row |-> i.payload] : i \in {x \in d.initial_sync : x.channel = ch}})

StoredContacts(d) ==
    {Contact(k, d.contact[k].name, d.contact[k].gen, d.contact[k].author) :
        k \in {x \in Keys : d.contact[x].ex}}

StoredMembers(d, c) == {Member(m.key, c, m.author) : m \in {x \in d.member : x.conv = c}}

StoredMessages(d, c) == {m \in MsgIds : d.message[m].ex /\ d.message[m].conv = c}

\* ps is the snapshot of conversation c of store d: the Conversation patch, the
\* Contact patches, the Member patches of c, then a NewMessage and its
\* MessageStatus for each message of c
IsSnapshot(ps, d, c) ==
    LET nc == Cardinality(StoredContacts(d))
        nm == Cardinality(StoredMembers(d, c))
        ng == Cardinality(StoredMessages(d, c))
        base == 1 + nc + nm
    IN /\ Len(ps) = base + 2 * ng
       /\ ps[1] = Conversation(c, d.conversation[c].title, d.conversation[c].gen,
                               d.conversation[c].author)
       /\ {ps[i] : i \in 2 .. 1 + nc} = StoredContacts(d)
       /\ {ps[i] : i \in 2 + nc .. base} = StoredMembers(d, c)
       /\ {ps[base + 2 * j - 1].msg : j \in 1 .. ng} = StoredMessages(d, c)
       /\ \A j \in 1 .. ng :
            LET new == ps[base + 2 * j - 1]
                status == ps[base + 2 * j]
                row == d.message[new.msg]
            IN /\ new = NewMessage(new.msg, row.from, c, row.text, row.gen,
                                   row.author, row.seq)
               /\ status = MessageStatus(new.msg, c, row.status, row.sgen, row.sauthor)

\* C20: create_channel queues for the new channel, in ascending row id, the
\* Conversation patch, then every Contact patch of the store, then every Member
\* patch of the conversation, then for each message of the conversation its
\* NewMessage patch immediately followed by its MessageStatus patch, and
\* nothing else
C20_InitialSnapshot ==
    [][\A r \in Replicas, c \in Convs :
          (~db[r].channel[c].ex /\ db'[r].channel[c].ex)
          => /\ IsSnapshot(Snapshot(db'[r], db'[r].channel[c].id), db'[r], c)
             /\ \A i \in db'[r].initial_sync :
                  i.channel = db'[r].channel[c].id => i.id > db[r].initial_seq
             /\ {i \in db'[r].initial_sync : i.channel # db'[r].channel[c].id}
                    = db[r].initial_sync]_vars

\* a channel was created for a conversation that already held two messages:
\* its snapshot is queued whole, two NewMessage patches in it
C20_Witness ==
    /\ chanops > 0
    /\ db["A"].channel["C2"].ex
    /\ Cardinality(StoredMessages(db["A"], "C2")) = 2
    /\ IsSnapshot(Snapshot(db["A"], db["A"].channel["C2"].id), db["A"], "C2")
    /\ Len(Snapshot(db["A"], db["A"].channel["C2"].id)) >= 7

\* ------------------------------------------------------------- C21
\* the step is a tx of r on c that returned Data with an id of the given tag
TxData(r, c, tag) ==
    /\ step'.op = "tx" /\ step'.r = r /\ step'.c = c
    /\ step'.frame.type = "Data" /\ step'.frame.id.tag = tag

\* the initial_sync rows of r's channel for c above the session's initial cursor
AboveCursor(d, r, c) == {i \in PendingInitial(d, c) : i.id > sync[r][c].minimum[1]}

\* C21: within a session tx emits the channel's initial_sync rows in ascending
\* id, it emits no Global Data while an initial_sync row of the channel above
\* the initial cursor exists, and an initial_sync row of a living channel is
\* deleted only by an Ack of the peer or by a local skip of tx
C21_SnapshotBeforeGlobal ==
    [][\A r \in Replicas, c \in Convs :
          /\ TxData(r, c, "InitialSync")
             => /\ step'.frame.id.n > sync[r][c].minimum[1]
                /\ \A i \in AboveCursor(db'[r], r, c) : i.id >= step'.frame.id.n
                /\ \E i \in PendingInitial(db'[r], c) :
                      i.id = step'.frame.id.n /\ i.payload = step'.frame.payload
          /\ TxData(r, c, "Global") => AboveCursor(db'[r], r, c) = {}
          /\ (db[r].channel[c].ex /\ db'[r].channel[c] = db[r].channel[c])
             => \A i \in PendingInitial(db[r], c) \ PendingInitial(db'[r], c) :
                   \/ /\ step'.op = "rx" /\ step'.r = r /\ step'.c = c
                      /\ step'.frame = Ack(InitialSync(i.id))
                   \/ /\ step'.op = "tx" /\ step'.r = r /\ step'.c = c
                      /\ \E k \in step'.skipped : k.id = InitialSync(i.id)]_vars

\* tx has just returned a Global row on a channel whose snapshot was sent whole
\* and is not yet acked whole
C21_Witness ==
    /\ step.op = "tx" /\ step.r = "A"
    /\ step.frame.type = "Data" /\ step.frame.id.tag = "Global"
    /\ PendingInitial(db["A"], step.c) # {}
    /\ sync["A"][step.c].minimum[1] >= Max({i.id : i \in PendingInitial(db["A"], step.c)})

\* ------------------------------------------------------------- framing
MAX_LEN == 4096

\* BigEndian::write_u32 (lengths here stay below 2^31, where `as u32` keeps them)
write_u32(n) ==
    << (n \div 16777216) % 256, (n \div 65536) % 256, (n \div 256) % 256, n % 256 >>

\* BigEndian::read_u32 of the first four bytes
read_u32(buf) == ((buf[1] * 256 + buf[2]) * 256 + buf[3]) * 256 + buf[4]

\* a send_packet that cuts one byte early
RECURSIVE send_packet_short(_)
send_packet_short(packet) ==
    IF packet = << >> THEN << >>
    ELSE LET n == IF MAX_LEN - 1 < Len(packet) THEN MAX_LEN - 1 ELSE Len(packet)
         IN <<SubSeq(packet, 1, n)>> \o send_packet_short(SubSeq(packet, n + 1, Len(packet)))

\* Fragmentable::send_packet: the chunks handed to underlying.send, in order
RECURSIVE send_packet(_)
send_packet(packet) ==
    IF packet = << >> THEN << >>
    ELSE LET n == IF MAX_LEN < Len(packet) THEN MAX_LEN ELSE Len(packet)
         IN <<SubSeq(packet, 1, n)>> \o send_packet(SubSeq(packet, n + 1, Len(packet)))

\* Fragmentable::send: the length prefix and the payload, cut by send_packet
Fragmentable_send(data) == send_packet(write_u32(Len(data)) \o data)

\* the bytes of the chunks, as the transport carries them
RECURSIVE Bytes(_)
Bytes(chunks) == IF chunks = << >> THEN << >> ELSE Head(chunks) \o Bytes(Tail(chunks))

next_packet_len(rx_buf) == read_u32(rx_buf)

\* Fragmentable::read_ready
read_ready(rx_buf) ==
    IF Len(rx_buf) < 4 THEN FALSE ELSE Len(rx_buf) - 4 >= next_packet_len(rx_buf)

\* a consume that throws away what follows the packet
consume_clears_buffer(rx_buf) ==
    [out |-> SubSeq(rx_buf, 5, 4 + next_packet_len(rx_buf)), rx_buf |-> << >>]

\* a consume that leaves the packet in the buffer
consume_keeps_packet(rx_buf) ==
    [out |-> SubSeq(rx_buf, 5, 4 + next_packet_len(rx_buf)), rx_buf |-> rx_buf]

\* Fragmentable::consume: [out, rx_buf]
consume(rx_buf) ==
    [out |-> SubSeq(rx_buf, 5, 4 + next_packet_len(rx_buf)),
     rx_buf |-> SubSeq(rx_buf, 5 + next_packet_len(rx_buf), Len(rx_buf))]

\* the payload of tests::send_fragments_receive_defragments
TestLen == 6000

TestData == [i \in 1 .. TestLen |-> (i - 1) % 256]

\* a payload that fills its last fragment, and one that needs one byte more
FullData == [i \in 1 .. 2 * MAX_LEN - 4 |-> i % 7]

OverfullData == [i \in 1 .. 2 * MAX_LEN - 3 |-> i % 5]

\* what the writer is given to send
Scenarios ==
    {<<TestData>>, <<FullData>>, <<OverfullData>>,
     << <<10>>, <<11>> >>, << << >>, <<1, 2>>, << >> >>,
     << <<1, 2, 3>>, <<0>>, <<0, 0, 0, 0, 1>> >>}

\* how many bytes one transport read may return
ReadSizes == {1, 3, MAX_LEN, 3 * MAX_LEN}

InitFraming ==
    /\ db = Drained
    /\ Offline
    /\ step = Quiet
    /\ \E todo \in Scenarios : fragmentable = Fragmentable_new(todo)

FragEvent(op, read, output) ==
    [op |-> op, r |-> "A", c |-> NoConv, frame |-> None, skipped |-> {},
     merged |-> FALSE, kept |-> FALSE, read |-> read, output |-> output]

\* the writer sends its next payload
FragSend ==
    /\ fragmentable.todo # << >>
    /\ \E chunks \in {Fragmentable_send(Head(fragmentable.todo))} :
         fragmentable' =
            [fragmentable EXCEPT !.todo = Tail(@),
                                 !.given = Append(@, Head(fragmentable.todo)),
                                 !.sent = @ \o [i \in 1 .. Len(chunks) |-> Len(chunks[i])],
                                 !.underlying = @ \o Bytes(chunks)]
    /\ step' = FragEvent("send", FALSE, << >>)
    /\ UNCHANGED <<db, sync, link, wire, uuid, writes, drops, injected, chanops,
                   unacked, state, pipe, pc>>

\* Fragmentable::wait: None when a packet is buffered, else the transport's wait
FragWait ==
    /\ fragmentable.value = "-"
    /\ read_ready(fragmentable.rx_buf) \/ fragmentable.underlying # << >>
    /\ fragmentable' =
          [fragmentable EXCEPT !.value = IF read_ready(fragmentable.rx_buf)
                                         THEN "None" ELSE "Some"]
    /\ step' = FragEvent("wait", FALSE, << >>)
    /\ UNCHANGED <<db, sync, link, wire, uuid, writes, drops, injected, chanops,
                   unacked, state, pipe, pc>>

\* Fragmentable::then: a Some value reads the transport (n bytes of it) into
\* rx_buf; a buffered packet is consumed and returned
FragThen(n) ==
    /\ fragmentable.value # "-"
    /\ IF fragmentable.value = "None" THEN n = 1
       ELSE n <= Len(fragmentable.underlying) \/ n = 3 * MAX_LEN
    /\ \E take \in {IF fragmentable.value = "None" THEN 0
                    ELSE IF n < Len(fragmentable.underlying) THEN n
                    ELSE Len(fragmentable.underlying)} :
       \E buf \in {fragmentable.rx_buf \o SubSeq(fragmentable.underlying, 1, take)} :
       \E got \in {IF read_ready(buf) THEN consume(buf)
                   ELSE [out |-> << >>, rx_buf |-> buf]} :
         /\ fragmentable' =
               [fragmentable EXCEPT
                  !.underlying = SubSeq(@, take + 1, Len(@)),
                  !.rx_buf = got.rx_buf,
                  !.value = "-",
                  !.out = IF read_ready(buf) THEN Append(@, got.out) ELSE @]
         /\ step' = FragEvent("then", fragmentable.value = "Some",
                              IF read_ready(buf) THEN <<got.out>> ELSE << >>)
    /\ UNCHANGED <<db, sync, link, wire, uuid, writes, drops, injected, chanops,
                   unacked, state, pipe, pc>>

NextFraming == FragSend \/ FragWait \/ (\E n \in ReadSizes : FragThen(n))

SpecFraming == InitFraming /\ [][NextFraming]_vars

\* ------------------------------------------------------------- C22
\* C22: whatever payloads are sent and however the transport cuts the byte
\* stream into reads, the packets then() returns are the payloads sent, in
\* order and once each: what was returned is always a prefix of what was sent,
\* and it is all of it once the stream is read and no packet is buffered
C22_FramingRoundTrip ==
    /\ Len(fragmentable.out) <= Len(fragmentable.given)
    /\ \A i \in 1 .. Len(fragmentable.out) : fragmentable.out[i] = fragmentable.given[i]
    /\ (/\ fragmentable.underlying = << >>
        /\ fragmentable.value = "-"
        /\ ~read_ready(fragmentable.rx_buf))
       => fragmentable.out = fragmentable.given /\ fragmentable.rx_buf = << >>

\* three payloads came through, an empty-looking one among them
C22_Witness ==
    /\ fragmentable.todo = << >>
    /\ fragmentable.out = << <<1, 2, 3>>, <<0>>, <<0, 0, 0, 0, 1>> >>
    /\ fragmentable.rx_buf = << >>

\* ------------------------------------------------------------- C23
\* the fragments of the payload just sent
NewFragments ==
    SubSeq(fragmentable'.sent, Len(fragmentable.sent) + 1, Len(fragmentable'.sent))

RECURSIVE Packets(_)
Packets(buf) ==
    IF Len(buf) < 4 THEN << >>
    ELSE IF Len(buf) - 4 < read_u32(buf) THEN << >>
    ELSE <<SubSeq(buf, 5, 4 + read_u32(buf))>>
         \o Packets(SubSeq(buf, 5 + read_u32(buf), Len(buf)))

\* what the step's transport read brought, appended to the buffer
Received ==
    fragmentable.rx_buf
    \o SubSeq(fragmentable.underlying, 1,
              Len(fragmentable.underlying) - Len(fragmentable'.underlying))

NextOffline ==
    \/ NextChannels
    \/ \E m \in MsgIds : SetMessageStatus("A", m, Mark("A"))
    \/ \E c \in Convs : SaveConversation("A", c)

SpecOffline == Init /\ [][NextOffline]_vars

\* the step is a local mutation of r
LocalMutation(r) == writes' = writes + 1 /\ db'[r] # db[r]

\* C25: a local mutation, whatever the channels are doing, appends exactly one
\* row to the global sync log and removes none, and the new row's id is greater
\* than every id the log ever assigned (no stored id exceeds the log's counter,
\* which never decreases, and the new id exceeds the counter)
C25_OfflineAcceptance ==
    /\ [](\A r \in Replicas : \A row \in db[r].sync : row.id <= db[r].sync_seq)
    /\ [][\A r \in Replicas :
            /\ db'[r].sync_seq >= db[r].sync_seq
            /\ LocalMutation(r) =>
                 \E row \in db'[r].sync :
                     /\ db'[r].sync = db[r].sync \cup {row}
                     /\ row \notin db[r].sync
                     /\ row.id > db[r].sync_seq
                     /\ \A old \in db[r].sync : row.id > old.id
                     /\ db'[r].channel = db[r].channel
                     /\ db'[r].initial_sync = db[r].initial_sync]_vars

\* Alice has no channel left and every session is Offline; the rows of the
\* pairing and of her first mutation were collected and the log holds only the
\* row of her second mutation, a message status, under the third id
C25_Witness ==
    /\ ExistingChannels("A") = {}
    /\ \A c \in Convs : state["A"][c] = "Offline"
    /\ writes = 2
    /\ db["A"].sync_seq = Drained["A"].sync_seq + 2
    /\ \E row \in db["A"].sync :
           /\ db["A"].sync = {row}
           /\ row.id = db["A"].sync_seq
           /\ row.payload.kind = "MessageStatus"

\* ------------------------------------------------------------- sequence allocation
\* the messages a peer may send Alice: any sequence an i32 holds, the largest
\* included
PushPatches ==
    {NewMessage(PeerMsg, "B", c, 9, 1, AuthorBob, q) : c \in Convs, q \in {1, 2, MaxI32}}

\* CrdtWritableSequenceTransaction::push of a message id the store may already
\* hold, followed by save_patch_for_sync; where the addition overflows, a build
\* with overflow checks panics and the transaction is rolled back
Push(r, c, m) ==
    /\ writes < MaxWrites
    /\ db[r].conversation[c].ex
    /\ m <= uuid \/ db[r].message[m].ex
    /\ \E panicked \in (IF last(db[r], c) = MaxI32 \/ db[r].message[m].gen = MaxI32
                        THEN BOOLEAN ELSE {FALSE}) :
           db' = IF panicked THEN db
                 ELSE [db EXCEPT ![r] = send_message(@, r, c, m, 1)]
    /\ writes' = writes + 1
    /\ step' = Quiet
    /\ UNCHANGED <<sync, link, wire, uuid, drops, injected, chanops, unacked,
                   state, pipe, pc, fragmentable>>

\* Database::send_message: a push under a fresh uuid
PushNew(r, c) ==
    /\ uuid + 1 \in MsgIds
    /\ uuid' = uuid + 1
    /\ \E panicked \in (IF last(db[r], c) = MaxI32 THEN BOOLEAN ELSE {FALSE}) :
           db' = IF panicked THEN db
                 ELSE [db EXCEPT ![r] = send_message(@, r, c, uuid + 1, 1)]
    /\ writes < MaxWrites
    /\ db[r].conversation[c].ex
    /\ writes' = writes + 1
    /\ step' = Quiet
    /\ UNCHANGED <<sync, link, wire, drops, injected, chanops, unacked,
                   state, pipe, pc, fragmentable>>

\* Alice pushing new and stored messages while a peer sends her messages
NextPush ==
    \/ \E c \in Convs : PushNew("A", c)
    \/ \E c \in Convs, m \in MsgIds : Push("A", c, m)
    \/ \E c \in Convs : Start({"A"}, c)
    \/ \E c \in Convs : Tx("A", c)
    \/ \E c \in Convs : Rx("A", c)
    \/ \E c \in Convs : Echo("A", c)
    \/ \E c \in Convs, p \in PushPatches : Inject("A", c, Global(1), p)

SpecPush == Init /\ [][NextPush]_vars

\* the messages r stores in conversation c
Stored(d, c) == {m \in MsgIds : d.message[m].ex /\ d.message[m].conv = c}

\* C26: a push writes one message row whose sequence is the largest sequence
\* stored in its conversation plus one (1 when the conversation is empty), so
\* the row sorts after every message the conversation held; a row that existed
\* has its generation incremented (the sums are sums of integers: a stored
\* value of i32::MAX has no successor to write)
C26_SequenceAllocation ==
    [][\A r \in Replicas :
         writes' = writes + 1 =>
             \E m \in MsgIds :
                 LET old == db[r].message[m]
                     new == db'[r].message[m]
                     held == {db[r].message[x].seq : x \in Stored(db[r], new.conv)}
                 IN /\ r = "A" => new.ex /\ new # old
                    /\ new # old =>
                         /\ \A x \in MsgIds \ {m} : db'[r].message[x] = db[r].message[x]
                         /\ \A q \in held : q < MaxI32
                         /\ new.seq = (IF held = {} THEN 0 ELSE Max(held)) + 1
                         /\ \A q \in held : q < new.seq
                         /\ old.gen < MaxI32
                         /\ new.gen = (IF old.ex THEN old.gen ELSE 0) + 1
                         /\ new.author = author(r)]_vars

\* ------------------------------------------------------------- members
\* C27: the member table only grows and holds one row per (key, conversation);
\* an rx of a Member patch whose (key, conversation) is stored returns nothing,
\* whatever its author: the member rows and the sync log stay as they were
C27_MembersGrowOnly ==
    /\ [](\A r \in Replicas : \A m, n \in db[r].member :
              (m.key = n.key /\ m.conv = n.conv) => m = n)
    /\ [][\A r \in Replicas :
            /\ db[r].member \subseteq db'[r].member
            /\ ( /\ step'.op = "rx" /\ step'.r = r
                 /\ step'.frame.type = "Data"
                 /\ step'.frame.payload.kind = "Member"
                 /\ \E m \in db[r].member : /\ m.key = step'.frame.payload.key
                                            /\ m.conv = step'.frame.payload.conv )
               => /\ ~step'.kept
                  /\ db'[r].member = db[r].member
                  /\ db'[r].sync = db[r].sync]_vars

\* Alice has just merged a peer's Member patch for a pair she stores under
\* another author, and returned nothing
C27_Witness ==
    /\ step.op = "rx"
    /\ step.frame.type = "Data"
    /\ step.frame.payload.kind = "Member"
    /\ step.merged
    /\ ~step.kept
    /\ \E m \in db[step.r].member :
           /\ m.key = step.frame.payload.key
           /\ m.conv = step.frame.payload.conv
           /\ m.author # step.frame.payload.author

\* ------------------------------------------------------------- merge order
\* the stamps a received patch may carry: the default stamp and a peer's first
MergeStamps == {[gen |-> 0, author |-> 0], [gen |-> 1, author |-> AuthorBob]}

\* patches about Bob, C2 and two messages, none of which a fresh store knows
MergePatches ==
    {Contact("B", 9, t.gen, t.author) : t \in MergeStamps}
    \cup {Conversation("C2", 9, t.gen, t.author) : t \in MergeStamps}
    \cup {Member("B", "C2", AuthorBob)}
    \cup {NewMessage(m, "B", "C2", 9, t.gen, t.author, 1) : m \in 1 .. 2, t \in MergeStamps}
    \cup {MessageStatus(m, "C2", 2, t.gen, t.author) : m \in 1 .. 2, t \in MergeStamps}

\* CrdtInstance::id, with the variant's table: a message and its status are
\* stamps of one row
LogicalId(p) ==
    CASE p.kind = "Contact" -> [table |-> "contact", key |-> p.key, conv |-> NoConv, msg |-> 0]
      [] p.kind = "Conversation" ->
           [table |-> "conversation", key |-> NoKey, conv |-> p.conv, msg |-> 0]
      [] p.kind = "Member" -> [table |-> "member", key |-> p.key, conv |-> p.conv, msg |-> 0]
      [] OTHER -> [table |-> "message", key |-> NoKey, conv |-> NoConv, msg |-> p.msg]

\* the stores the two patches arrive at: a fresh one, and Alice's after pairing
MergeStores == {first_time("A"), Paired["A"]}

\* two copies of one store, and two patches with different logical ids to merge
InitMerge ==
    /\ Offline /\ Unframed
    /\ \E d \in MergeStores : db = [r \in Replicas |-> d]
    /\ \E p, q \in MergePatches :
           /\ LogicalId(p) # LogicalId(q)
           /\ step = [op |-> "input", p |-> p, q |-> q,
                      kept |-> [r \in Replicas |-> [first |-> FALSE, second |-> FALSE]]]

\* Patch::merge of one patch on each copy: p on the first copy, q on the second
MergeFirst ==
    /\ step.op = "input"
    /\ \E a \in {merge(db["A"], step.p)}, b \in {merge(db["B"], step.q)} :
           /\ db' = [db EXCEPT !["A"] = a.db, !["B"] = b.db]
           /\ step' = [step EXCEPT !.op = "first", !.kept["A"].first = a.kept,
                                   !.kept["B"].first = b.kept]
    /\ UNCHANGED <<sync, link, wire, uuid, writes, drops, injected, chanops,
                   unacked, state, pipe, pc, fragmentable>>

\* Patch::merge of the other patch on each copy
MergeSecond ==
    /\ step.op = "first"
    /\ \E a \in {merge(db["A"], step.q)}, b \in {merge(db["B"], step.p)} :
           /\ db' = [db EXCEPT !["A"] = a.db, !["B"] = b.db]
           /\ step' = [step EXCEPT !.op = "second", !.kept["A"].second = a.kept,
                                   !.kept["B"].second = b.kept]
    /\ UNCHANGED <<sync, link, wire, uuid, writes, drops, injected, chanops,
                   unacked, state, pipe, pc, fragmentable>>

NextMerge == MergeFirst \/ MergeSecond

SpecMerge == InitMerge /\ [][NextMerge]_vars

\* what a store holds, without the row ids its tables handed out
Rows(d) ==
    [key |-> {d.key[i] : i \in 1 .. Len(d.key)},
     contact |-> d.contact,
     conversation |-> d.conversation,
     member |-> d.member,
     message |-> [m \in MsgIds |-> [d.message[m] EXCEPT !.rowid = 0]]]

\* C28: two patches with different logical ids, merged in either order into
\* copies of one store, leave the same rows in both, and each patch is accepted
\* in one order exactly if it is accepted in the other
C28_MergeCommutes ==
    step.op = "second" =>
        /\ Rows(db["A"]) = Rows(db["B"])
        /\ step.kept["A"].first = step.kept["B"].second
        /\ step.kept["A"].second = step.kept["B"].first

\* ------------------------------------------------------------- removing a channel
\* the step removes r's channel for c
Removes(r, c) == db[r].channel[c].ex /\ ~db'[r].channel[c].ex

\* C29: a step that removes a channel deletes the channel row and every
\* initial_sync row of that channel, and nothing else: keys, contacts,
\* conversations, members, messages, the global sync log, the other channels
\* and their initial_sync rows are as before
C29_RemoveChannelFrame ==
    [][\A r \in Replicas, c \in Convs :
         Removes(r, c) =>
            LET id == db[r].channel[c].id
            IN /\ db'[r].channel[c] = NoChannel
               /\ db'[r].initial_sync = {i \in db[r].initial_sync : i.channel # id}
               /\ \A o \in Convs \ {c} : db'[r].channel[o] = db[r].channel[o]
               /\ db'[r].key = db[r].key
               /\ db'[r].contact = db[r].contact
               /\ db'[r].conversation = db[r].conversation
               /\ db'[r].member = db[r].member
               /\ db'[r].message = db[r].message
               /\ db'[r].sync = db[r].sync
               /\ db'[r].sync_seq = db[r].sync_seq]_vars

\* Alice created a channel for C2, which stored its snapshot in initial_sync,
\* and removed it: the channel and its initial_sync rows are gone; her first
\* channel, the member row and the sync row the creation added are still there
C29_Witness ==
    /\ chanops = 2
    /\ db["A"].channel_seq = 2
    /\ ~db["A"].channel["C2"].ex
    /\ db["A"].channel["C1"].ex
    /\ db["A"].initial_seq > Paired["A"].initial_seq
    /\ \A i \in db["A"].initial_sync : i.channel # 2
    /\ \E m \in db["A"].member : m.key = "B" /\ m.conv = "C2"
    /\ \E x \in db["A"].sync : x.payload.kind = "Member" /\ x.payload.conv = "C2"

\* ------------------------------------------------------------- acknowledging Data
\* the ids a peer may give its Data frames
DataIds == {Global(1), InitialSync(2)}

\* Alice, sending messages, in session with a peer that may send any Data frame
\* under a global or an initial-sync id
NextData ==
    \/ \E c \in Convs : SendMessage("A", c)
    \/ \E c \in Convs : Start({"A"}, c)
    \/ \E c \in Convs : Tx("A", c)
    \/ \E c \in Convs : Rx("A", c)
    \/ \E c \in Convs : Echo("A", c)
    \/ \E c \in Convs, id \in DataIds, p \in PeerPatches : Inject("A", c, id, p)

SpecData == Init /\ [][NextData]_vars

\* C30: an rx of Data(sd) appends exactly one frame to the session's tx_queue,
\* Ack(sd.id) with the id of the Data, whether the patch was merged and kept,
\* merged and rejected, or skipped by the conversation gate; an rx of an Ack
\* appends nothing
C30_EveryDataAcked ==
    [][\A r \in Replicas, c \in Convs :
         (step'.op = "rx" /\ step'.r = r /\ step'.c = c) =>
             IF step'.frame.type = "Data"
             THEN sync'[r][c].tx = Append(sync[r][c].tx, Ack(step'.frame.id))
             ELSE sync'[r][c].tx = sync[r][c].tx]_vars

\* Alice has just read a Data frame under an initial-sync id whose patch is of
\* another conversation: nothing was merged, and the Ack of that id is the last
\* frame of her tx_queue
C30_Witness ==
    /\ step.op = "rx"
    /\ step.frame.type = "Data"
    /\ step.frame.id = InitialSync(2)
    /\ ~step.merged
    /\ sync[step.r][step.c].tx # << >>
    /\ sync[step.r][step.c].tx[Len(sync[step.r][step.c].tx)] = Ack(InitialSync(2))

\* ------------------------------------------------------------- the outbound loop
\* the step is a tx of r's session for c
IsTx(r, c) == step'.op = "tx" /\ step'.r = r /\ step'.c = c

\* C31: a tx on a non-empty tx_queue returns the front of the queue and leaves
\* the rest, the store and both cursors as they were; a tx that returns Data
\* found the queue empty
C31_QueueFirst ==
    [][\A r \in Replicas, c \in Convs :
         IsTx(r, c) =>
            /\ sync[r][c].tx # << >> =>
                  /\ step'.frame = Head(sync[r][c].tx)
                  /\ sync'[r][c].tx = Tail(sync[r][c].tx)
                  /\ sync'[r][c].minimum = sync[r][c].minimum
                  /\ db'[r] = db[r]
                  /\ step'.skipped = {}
            /\ step'.frame.type = "Data" => sync[r][c].tx = << >>]_vars

\* Alice has just sent the Ack of the Data she read first while the Ack of the
\* Data she read second waits in the queue and a message of hers waits in the
\* sync log above the channel's sync_index
C31_Witness ==
    /\ step.op = "tx"
    /\ step.frame = Ack(InitialSync(2))
    /\ sync[step.r][step.c].tx = << Ack(Global(1)) >>
    /\ \E row \in db[step.r].sync :
           /\ row.id > db[step.r].channel[step.c].sync_index
           /\ row.payload.kind = "NewMessage"
           /\ row.payload.author = author(step.r)
           /\ row.payload.conv = step.c

\* ------------------------------------------------------------- relaying
\* the step is an rx of a Data frame by r
IsRxData(r) == step'.op = "rx" /\ step'.r = r /\ step'.frame.type = "Data"

\* C32: an rx of Data whose patch the merge kept appends exactly one row to the
\* global sync log, holding that patch under a new id; an rx of Data whose
\* patch was not kept (gated, repeated or older) leaves the sync log as it was
C32_RelayOnlyKept ==
    [][\A r \in Replicas :
         IsRxData(r) =>
            IF step'.kept
            THEN /\ step'.merged
                 /\ \E row \in db'[r].sync :
                        /\ row \notin db[r].sync
                        /\ db'[r].sync = db[r].sync \cup {row}
                        /\ row.payload = step'.frame.payload
                        /\ row.id > db[r].sync_seq
            ELSE /\ db'[r].sync = db[r].sync
                 /\ db'[r].sync_seq = db[r].sync_seq]_vars

\* Alice has just merged a Conversation patch older than the title she stores:
\* nothing was kept and no sync row holds the patch
C32_Witness ==
    /\ step.op = "rx"
    /\ step.frame.type = "Data"
    /\ step.merged
    /\ ~step.kept
    /\ step.frame.payload.kind = "Conversation"
    /\ step.frame.payload.gen < db[step.r].conversation[step.frame.payload.conv].gen
    /\ \A row \in db[step.r].sync : row.payload # step.frame.payload

\* ------------------------------------------------------------- skipped rows
\* the patch is the peer's own or of another conversation than the session's
NotForPeer(s, p) ==
    \/ SyncData_author(p) = s.author
    \/ SyncData_conversation(p) \notin {NoConv, s.conversation}

\* C33: the rows a tx skips are the peer's own or another conversation's; after
\* the tx a skipped Global row lies at or below channel.sync_index, a skipped
\* InitialSync row is deleted, and no skipped row is sent; the same tx returns
\* a row meant for the peer, and returns nothing only when no row is left above
\* the cursors, which a skip does not move
C33_SkippedAckedLocally ==
    [][\A r \in Replicas, c \in Convs :
         IsTx(r, c) =>
            LET s == sync[r][c]
                ch == db[r].channel[c]
                ch2 == db'[r].channel[c]
                m2 == sync'[r][c].minimum
            IN /\ step'.skipped # {} => s.tx = << >>
               /\ \A x \in step'.skipped :
                     /\ NotForPeer(s, x.payload)
                     /\ x.id.tag = "Global" =>
                           /\ \E row \in db[r].sync : row.id = x.id.n /\ row.payload = x.payload
                           /\ x.id.n > ch.sync_index
                           /\ ch2.sync_index >= x.id.n
                     /\ x.id.tag = "InitialSync" =>
                           /\ \E i \in db[r].initial_sync : i.id = x.id.n /\ i.channel = ch.id
                           /\ \A i \in db'[r].initial_sync : i.id # x.id.n
                     /\ step'.frame.type = "Data" => step'.frame.id # x.id
               /\ (step'.frame.type = "Data" /\ step'.skipped # {}) =>
                     ~NotForPeer(s, step'.frame.payload)
               /\ step'.frame = None =>
                     /\ m2 = s.minimum
                     /\ \A i \in db'[r].initial_sync : i.channel = ch2.id => i.id <= m2[1]
                     /\ \A row \in db'[r].sync : row.id <= ch2.sync_index \/ row.id <= m2[2]]_vars

\* a tx has just skipped a Global row and, in the same call, returned a Data
\* frame with a row meant for the peer
C33_Witness ==
    /\ step.op = "tx"
    /\ \E x \in step.skipped : x.id.tag = "Global"
    /\ step.frame.type = "Data"
    /\ ~NotForPeer([author |-> author(Peer(step.r)), conversation |-> step.c],
                   step.frame.payload)

InitialAckIds == {InitialSync(n) : n \in Paired["A"].initial_seq .. Paired["A"].initial_seq + 3}

\* Alice adds Bob to C2; on either channel her peer acks whatever initial-sync
\* id it likes
NextInitialAcks ==
    \/ CreateChannel("A", "C2")
    \/ \E c \in Convs : Start({"A"}, c)
    \/ \E c \in Convs : Tx("A", c)
    \/ \E c \in Convs : Rx("A", c)
    \/ \E c \in Convs : Echo("A", c)
    \/ \E c \in Convs, id \in InitialAckIds : InjectAck("A", c, id)

SpecInitialAcks == Init /\ [][NextInitialAcks]_vars

\* the step is r's rx, on c, of an Ack of an initial-sync id
IsRxInitialAck(r, c) ==
    /\ step'.op = "rx" /\ step'.r = r /\ step'.c = c
    /\ step'.frame.type = "Ack"
    /\ step'.frame.id.tag = "InitialSync"

\* C35: an rx of Ack(InitialSync(id)) on a channel deletes the initial_sync row
\* of that id if the row is the channel's, and no other row; a row of another
\* channel or a missing row changes nothing; the rest of the store, the
\* channels' sync_index and the global sync log included, stays as it was
C35_InitialAckScoped ==
    [][\A r \in Replicas, c \in Convs :
         IsRxInitialAck(r, c) =>
            LET own == {i \in db[r].initial_sync :
                            i.id = step'.frame.id.n /\ i.channel = db[r].channel[c].id}
            IN /\ db'[r].initial_sync = db[r].initial_sync \ own
               /\ db'[r].channel = db[r].channel
               /\ db'[r].sync = db[r].sync
               /\ db'[r] = [db[r] EXCEPT !.initial_sync = db'[r].initial_sync]]_vars

\* Alice has just read, on the channel for C1, the Ack of an initial-sync row
\* that belongs to her channel for C2: the row is still stored
C35_Witness ==
    /\ step.op = "rx"
    /\ step.c = "C1"
    /\ step.frame.type = "Ack"
    /\ step.frame.id.tag = "InitialSync"
    /\ \E i \in db[step.r].initial_sync :
           /\ i.id = step.frame.id.n
           /\ i.channel = db[step.r].channel["C2"].id
           /\ i.channel # db[step.r].channel["C1"].id

\* ------------------------------------------------------------- pending frames
\* Alice's hub has just read a frame of channel c off the pipe
ReadsFrame(c) ==
    /\ wire["B"][c] # << >>
    /\ wire'["B"][c] = Tail(wire["B"][c])
    /\ state'["A"][c] = "Connected"

\* C36: per channel, inbound frames are processed in arrival order and each
\* exactly once. A frame leaves the pipe only from its head, in a wait of the
\* channel with nothing pending, and becomes the pending Rx; a pending Rx stays
\* untouched until the next pre_wait, which hands it to rx (a Data frame's Ack
\* is what tx returns next) and leaves no Rx pending; a pending Tx stays
\* untouched by every pre_wait and leaves only in a wait of the channel, which
\* appends it to the outbound pipe, or with the channel's failure in that wait
\* or the hub's close
C36_PendingInOrder ==
    [][\A c \in Convs :
         LET p == pipe["A"][c].pending
             p2 == pipe'["A"][c].pending
         IN /\ ReadsFrame(c) =>
                 /\ step'.op = "wait" /\ step'.r = "A" /\ step'.c = c
                 /\ p.kind = "None"
                 /\ IF Head(wire["B"][c]) = Eof
                    THEN p2 = NoPending /\ pipe'["A"][c].rx_closed
                    ELSE p2 = Pending("Rx", Head(wire["B"][c]))
            /\ p2.kind = "Rx" /\ p2 # p => ReadsFrame(c)
            /\ p.kind = "Rx" =>
                 \/ p2 = p /\ step'.op # "pre_wait" /\ ~ReadsFrame(c)
                 \/ /\ step'.op = "pre_wait"
                    /\ state'["A"][c] = "Connected"
                    /\ p2.kind # "Rx"
                    /\ p.frame.type = "Data" => p2 = Pending("Tx", Ack(p.frame.id))
                 \/ /\ step'.op \in {"pre_wait", "close"}
                    /\ state'["A"][c] = "Offline"
                    /\ step'.cause[c] \in {"deserialize", "store", "close"}
            /\ p.kind = "Tx" =>
                 \/ p2 = p
                 \/ /\ step'.op = "wait" /\ step'.c = c
                    /\ p2 = NoPending
                    /\ wire'["A"][c] = Append(wire["A"][c], p.frame)
                 \/ /\ step'.op = "wait" /\ step'.c = c
                    /\ state'["A"][c] = "Offline"
                    /\ step'.cause[c] = "send"
                 \/ step'.op = "close" /\ state'["A"][c] = "Offline"]_vars

\* another channel has just won the select while the channel for C1 holds the
\* Ack of a Data frame it was handed, still pending, and a further frame waits
\* on its pipe
C36_Witness ==
    /\ step.op = "wait"
    /\ step.r = "A"
    /\ step.c = "C2"
    /\ state["A"]["C1"] = "Connected"
    /\ pipe["A"]["C1"].pending.kind = "Tx"
    /\ pipe["A"]["C1"].pending.frame.type = "Ack"
    /\ wire["B"]["C1"] # << >>

\* ------------------------------------------------------------- placeholders
\* the patch copy r merges in this step, and whether it is accepted
MergedPatch(r) ==
    IF (step.op = "input") = (r = "A") THEN step.p ELSE step.q

MergedKept(r) ==
    IF step.op = "input" THEN step'.kept[r].first ELSE step'.kept[r].second

\* a row get_or_create inserted: the default value under the zero stamp
Placeholder(row) == row.ex /\ row.gen = 0 /\ row.author = 0

\* the key a patch makes the store look up: a status of an unknown message
\* stands in the default key for the sender
LooksUp(d, p) ==
    CASE p.kind \in {"Member", "NewMessage"} -> {p.key}
      [] p.kind = "MessageStatus" /\ ~d.message[p.msg].ex -> {ZeroKey}
      [] OTHER -> {}

\* C37: a merge never needs a row that is missing. A NewMessage or a
\* MessageStatus with an unknown message id is accepted whatever key and
\* conversation it names; once a NewMessage, Member or MessageStatus is saved
\* (a Member already when it is looked up) its conversation and its key are
\* stored, as zero-stamped placeholders with default values where they were
\* unknown; every stored message has its from key in the key table, with a
\* contact row, and its conversation; and a Contact or Conversation patch of
\* generation 1 or more is accepted over a placeholder and replaces it
C37_PlaceholdersOnMerge ==
    [][\A r \in Replicas :
         LET p == MergedPatch(r)
             kept == MergedKept(r)
             d == db[r]
             d2 == db'[r]
         IN /\ p.kind \in {"NewMessage", "MessageStatus"} /\ ~d.message[p.msg].ex => kept
            /\ p.kind \in {"NewMessage", "MessageStatus"} /\ kept =>
                 /\ d2.message[p.msg].ex
                 /\ d2.message[p.msg].conv = p.conv
            /\ p.kind \in {"NewMessage", "MessageStatus", "Member"}
                  /\ (kept \/ p.kind = "Member") =>
                 /\ d2.conversation[p.conv].ex
                 /\ ~d.conversation[p.conv].ex =>
                        Placeholder(d2.conversation[p.conv]) /\ d2.conversation[p.conv].title = 0
                 /\ \A k \in LooksUp(d, p) :
                        /\ \E i \in 1 .. Len(d2.key) : d2.key[i] = k
                        /\ d2.contact[k].ex
                        /\ ~d.contact[k].ex =>
                               Placeholder(d2.contact[k]) /\ d2.contact[k].name = 0
            /\ \A m \in MsgIds :
                 d2.message[m].ex =>
                    /\ \E i \in 1 .. Len(d2.key) : d2.key[i] = d2.message[m].from
                    /\ d2.contact[d2.message[m].from].ex
                    /\ d2.conversation[d2.message[m].conv].ex
            /\ p.kind = "Contact" /\ Placeholder(d.contact[p.key]) /\ p.gen >= 1 =>
                 /\ kept
                 /\ d2.contact[p.key] =
                        [ex |-> TRUE, name |-> p.val, gen |-> p.gen, author |-> p.author]
            /\ p.kind = "Conversation" /\ Placeholder(d.conversation[p.conv]) /\ p.gen >= 1 =>
                 /\ kept
                 /\ d2.conversation[p.conv] =
                        [ex |-> TRUE, title |-> p.val, gen |-> p.gen, author |-> p.author]]_vars

\* a fresh store merged a message from Bob in C2, knowing neither, and then
\* Bob's Contact patch of generation 1: both were accepted, the conversation is
\* still the placeholder and the contact carries the patch's name and stamp
C37_Witness ==
    /\ step.op = "second"
    /\ step.p.kind = "NewMessage"
    /\ step.q.kind = "Contact" /\ step.q.gen = 1
    /\ step.kept["A"].first /\ step.kept["A"].second
    /\ ~db["A"].conversation["C1"].ex
    /\ Placeholder(db["A"].conversation[step.p.conv])
    /\ db["A"].message[step.p.msg].from = step.q.key
    /\ db["A"].contact[step.q.key] =
           [ex |-> TRUE, name |-> step.q.val, gen |-> 1, author |-> step.q.author]

\* ------------------------------------------------------------- PipeSync asserts
\* C38: the asserts of PipeSync are never met under the hub loop. Whenever the
\* hub is about to wait, no Connected channel holds a pending Rx (wait's
\* unreachable arm); and a wait of a Connected channel that hands its value to
\* then() starts from a pending Tx or from nothing, which wait takes, so
\* then() is entered with nothing pending and leaves nothing or the frame it
\* read; the channels that did not win keep what they had
C38_AssertsUnreachable ==
    /\ [](pc["A"] = "wait" =>
            \A c \in Convs :
                state["A"][c] = "Connected" => pipe["A"][c].pending.kind \in {"None", "Tx"})
    /\ [][\A c \in Convs :
            step'.op = "wait" /\ step'.r = "A" /\ step'.c = c /\ pc["A"] = "wait"
              /\ state["A"][c] = "Connected" =>
                /\ pipe["A"][c].pending.kind # "Rx"
                /\ pipe'["A"][c].pending.kind # "Tx"
                /\ \A o \in Convs \ {c} : pipe'["A"][o] = pipe["A"][o]]_vars

\* the hub is about to wait with a message prepared on both of its Connected
\* channels: one of them wins the select and the other's stays pending
C38_Witness ==
    /\ pc["A"] = "wait"
    /\ step.op = "pre_wait"
    /\ \A c \in Convs :
           /\ state["A"][c] = "Connected"
           /\ pipe["A"][c].pending.kind = "Tx"
    /\ pipe["A"]["C1"].pending.frame.type = "Ack"

\* ------------------------------------------------------------- relay
\* the patches some replica's sync log holds: what the rest of the network may
\* deliver to a replica over another of its channels
Held == UNION {{x.payload : x \in db[q].sync} : q \in Replicas}

\* a third peer delivers a held patch to r as a Data frame; r's rx merges it and
\* appends it to the sync log if the merge keeps it
Relay(r) ==
    /\ injected < MaxInject
    /\ \E p \in Held :
         LET c == IF SyncData_conversation(p) = NoConv THEN "C1"
                  ELSE SyncData_conversation(p)
             frame == Data(Global(1), p)
         IN \E res \in {PatchSync_rx(db[r], Idle(c), frame)} :
               /\ db' = [db EXCEPT ![r] = res.db]
               /\ step' = Event("rx", r, NoConv, frame, {}, res.merged, res.kept)
    /\ injected' = injected + 1
    /\ UNCHANGED <<sync, link, wire, uuid, writes, drops, chanops, unacked,
                   state, pipe, pc, fragmentable>>

\* two honest replicas in session, and the rest of the network relaying to
\* either of them what the two hold
NextRelay ==
    \/ \E r \in Replicas : Write(r)
    \/ Exchange
    \/ \E r \in Replicas : Relay(r)

\* each hub keeps cycling: a tx that has something to do and an rx of a frame
\* that arrived are eventually run
FairRelay ==
    \A r \in Replicas, c \in Convs : WF_vars(Tx(r, c)) /\ WF_vars(Rx(r, c))

SpecRelay == Init /\ [][NextRelay]_vars /\ FairRelay

\* one patch per logical id, to look its stored stamp up with
Probes ==
    {Contact(k, 0, 0, 0) : k \in Keys}
    \cup {Conversation(c, 0, 0, 0) : c \in Convs}
    \cup {Member(k, c, 0) : k \in Keys, c \in Convs}
    \cup {NewMessage(m, NoKey, NoConv, 0, 0, 0, 0) : m \in MsgIds}
    \cup {MessageStatus(m, NoConv, 0, 0, 0) : m \in MsgIds}

\* no session has a frame in flight or a tx that returns one
NothingToSend ==
    \A c \in Convs :
        link[c] =>
            \A r \in Replicas :
                /\ wire[r][c] = << >>
                /\ PatchSync_tx(db[r], sync[r][c], {}).out = None

MaxPending == 2

\* a store d of r with n patches written while offline: a message, then a title
Outbound(d, r, n) ==
    CASE n = 0 -> d
      [] n = 1 -> send_message(d, r, "C1", Mark(r), 1)
      [] OTHER ->
           CHOOSE out \in
               {save_conversation(d1, r, "C1", author(r)) :
                   d1 \in {send_message(d, r, "C1", Mark(r), 1)}} : TRUE

\* two PipeSync endpoints just built over the two ends of ChannelPipe::channel(),
\* each with a fresh PatchSync for C1 and some patches to send
InitPipes ==
    /\ \E d \in {Drained} : \E na, nb \in 0 .. MaxPending :
         \E a \in {Outbound(d["A"], "A", na)}, b \in {Outbound(d["B"], "B", nb)} :
           /\ db = [r \in Replicas |-> IF r = "A" THEN a ELSE b]
           /\ sync = [r \in Replicas |->
                        [c \in Convs |->
                           IF c = "C1"
                           THEN PatchSync_new(d[r].channel[c].id, author(Peer(r)), c)
                           ELSE Idle(c)]]
    /\ link = [c \in Convs |-> c = "C1"]
    /\ wire = [r \in Replicas |-> [c \in Convs |-> << >>]]
    /\ uuid = 2
    /\ writes = 0
    /\ drops = 0
    /\ injected = 0
    /\ chanops = 0
    /\ unacked = [r \in Replicas |-> [c \in Convs |-> {}]]
    /\ state = [r \in Replicas |->
                  [c \in Convs |-> IF c = "C1" THEN "Connected" ELSE "Offline"]]
    /\ pipe = [r \in Replicas |-> [c \in Convs |-> PipeSync_new]]
    /\ pc = [r \in Replicas |-> "pre_wait"]
    /\ Unframed
    /\ step = Quiet

\* the top of r's loop: PipeSync::pre_wait on its endpoint
LoopPreWait(r) ==
    /\ pc[r] = "pre_wait"
    /\ \E now \in {Hub(r)} : \E h \in {Channel_pre_wait(now, "C1", FALSE)} :
          /\ db' = [db EXCEPT ![r] = h.db]
          /\ state' = [state EXCEPT ![r] = h.state]
          /\ sync' = [sync EXCEPT ![r] = h.sync]
          /\ pipe' = [pipe EXCEPT ![r] = h.pipe]
          /\ unacked' = [unacked EXCEPT ![r] = h.unacked]
          /\ link' = h.link
          /\ wire' = h.wire
          /\ step' = HubEvent("pre_wait", r, "C1", None, {}, h.cause)
    /\ pc' = [pc EXCEPT ![r] = "wait"]
    /\ UNCHANGED <<uuid, writes, drops, injected, chanops, fragmentable>>

\* each endpoint runs its own pre_wait / wait / then loop; a send completes
\* when the queue of its direction has room
NextPipes ==
    \/ \E r \in Replicas : LoopPreWait(r)
    \/ \E r \in Replicas : HubWait(r, "C1", "none")

SpecPipes == InitPipes /\ [][NextPipes]_vars

\* r's loop took its pending Tx and is inside then(), in a send that cannot
\* complete: the queue of its direction is full
BlockedOnSend(r) ==
    /\ pc[r] = "wait"
    /\ state[r]["C1"] = "Connected"
    /\ pipe[r]["C1"].pending.kind = "Tx"
    /\ Len(wire[r]["C1"]) = MaxWire

\* C40: the two endpoints are never both blocked inside then() on send
C40_NoSendDeadlock == ~(\A r \in Replicas : BlockedOnSend(r))

====
